---- MODULE Spec2Model ----
(***************************************************************************)
(* Teyuna (AIAC-V0) game engine: the GameService state machine of          *)
(* backend/app/services/game.py over one Game aggregate (Game, its Player  *)
(* rows and its GameState row of backend/app/models/game.py).              *)
(*                                                                         *)
(* Python None is written 0 for an id (winner_id, vertex/edge player_id)   *)
(* and "none" for a vertex building; ids of real rows are positive.        *)
(***************************************************************************)
EXTENDS Integers, Sequences, FiniteSets, TLC

(***************************************************************************)
(* Bounds of the model.                                                    *)
(***************************************************************************)
\* users that may call the API: user ids 1..NumUsers
NumUsers == 3
\* vertices and edges of the modelled board (ids 0..n-1, as the generator numbers them)
NumVertices == 1
NumEdges == 1
\* no call is taken once the game log holds the entries of MaxCalls calls
MaxCalls == 4
\* caps on the calls that are always enabled in an ACTIVE game
MaxStarts == 2
MaxRolls == 1
MaxTurns == 1
\* start_game draws its shuffle among the rotations by 0..MaxShift places
MaxShift == 1
\* users that may call the API of a game in its lobby: user ids 1..MaxLobbyUsers
MaxLobbyUsers == 5
\* a late game has 0..MaxDeckLeft cards left in its deck
MaxDeckLeft == 2
\* generate_board draws its shuffle of the number tokens among the rotations
\* by 0..MaxTokenShift places, of the port types by 0..MaxPortShift places
MaxTokenShift == 2
MaxPortShift == 1
\* requests served on a stored game
MaxRequests == 4
\* calls logged in a game followed over its turns
MaxTurnCalls == 5

(***************************************************************************)
(* Enumerations (models/game.py, schemas/game.py) and economy tables.      *)
(***************************************************************************)
WAITING == "waiting"
ACTIVE == "active"
FINISHED == "finished"

\* AVAILABLE_COLORS = list(PlayerColor), in declaration order
AVAILABLE_COLORS == <<"gold", "terracotta", "jade", "obsidian">>

CAMINO == "camino"
BOHIO == "bohio"
TEMPLO == "templo"
BuildingType == {CAMINO, BOHIO, TEMPLO}

ResourceType == {"gold", "stone", "cotton", "maize", "wood"}

BUILDING_COSTS ==
    [camino |-> [stone |-> 1, wood |-> 1],
     bohio  |-> [stone |-> 1, wood |-> 1, cotton |-> 1, maize |-> 1],
     templo |-> [gold |-> 3, maize |-> 2]]

DEVELOPMENT_CARD_COST == [gold |-> 1, cotton |-> 1, maize |-> 1]

GUERRERO_NAOMA == "guerrero_naoma"
ABUNDANCIA == "abundancia"
SABIDURIA_MAMA == "sabiduria_mama"
NUEVOS_CAMINOS == "nuevos_caminos"
AVANCE_ANCESTRAL == "avance_ancestral"

Repeat(x, n) == [i \in 1..n |-> x]

DEVELOPMENT_CARDS ==
    Repeat(GUERRERO_NAOMA, 14) \o Repeat(ABUNDANCIA, 2) \o Repeat(SABIDURIA_MAMA, 2)
        \o Repeat(NUEVOS_CAMINOS, 2) \o Repeat(AVANCE_ANCESTRAL, 5)

\* total_points >= 10 ends the game
VICTORY_POINTS_TO_WIN == 10

\* GameCreate.max_players: Field(default=4, ge=3, le=4)
MaxPlayersChoices == {3, 4}

\* start_game: "Need 3-4 players"
MIN_PLAYERS == 3

(***************************************************************************)
(* State: the columns of the Game row, its Player rows in the order of     *)
(* game.players (insertion order), and its GameState row; plus the value   *)
(* returned by the last service call.  These are the objects a request     *)
(* works on; stored is the rows of the database they were loaded from and  *)
(* are saved to, and session where the requests in flight stand.  Apart    *)
(* from the game stand the generator of the random module, the websocket   *)
(* ConnectionManager with the tasks of its connections, and the AI client. *)
(***************************************************************************)
VARIABLES
    max_players,        \* Game.max_players
    status,             \* Game.status
    current_turn,       \* Game.current_turn
    winner_id,          \* Game.winner_id (a user id, 0 = None)
    players,            \* Game.players: sequence of Player rows
    board,              \* GameState.board: hexes, vertices, edges, conquistador_position
    development_deck,   \* GameState.development_deck (pop() takes the last element)
    last_dice_roll,     \* GameState.last_dice_roll
    game_log,           \* GameState.game_log
    result,             \* the last call: operation, arguments and what it returned
    stored,             \* the games, players and game_states rows of the game
    session,            \* the requests in flight on the game
    random_state,       \* the state of the generator of the module random
    manager,            \* websocket.manager, its connections and their tasks
    client              \* the locals of play_turn of the AI client

game == <<max_players, status, current_turn, winner_id, players, board,
          development_deck, last_dice_roll, game_log>>
vars == <<max_players, status, current_turn, winner_id, players, board,
          development_deck, last_dice_roll, game_log, result, stored, session,
          random_state, manager, client>>

\* what stands apart from the game and its rows
apart == <<random_state, manager, client>>

\* the game alone: the outcomes of random are drawn among all of them, no
\* websocket is open and no AI client plays
Alone == random_state = <<>> /\ manager = <<>> /\ client = <<>>

\* the service called on a Game aggregate that stays in memory from call to
\* call: no row and no request is modelled
InMemory == stored = <<>> /\ session = <<>> /\ Alone

Users == 1..NumUsers

\* Player.id is the autoincrement key of the players table, a different key
\* space from users.id: the k-th Player row of the game gets NumUsers + k.
PlayerId(k) == NumUsers + k

\* what a call returned: ok is FALSE for None / False
Returned(op, who, kind, pos, ok, value) ==
    [op |-> op, who |-> who, kind |-> kind, pos |-> pos, ok |-> ok, value |-> value]

\* "return None" / "return False": of a failed call only the operation and the
\* failure signal are kept
Fail(op, who, kind, pos) ==
    /\ result' = Returned(op, 0, "", 0, FALSE, <<>>)
    /\ UNCHANGED game

\* "return None" of join_game and buy_development_card: the caller is kept
\* with the failure signal
Refused(op, who) ==
    /\ result' = Returned(op, who, "", 0, FALSE, <<>>)
    /\ UNCHANGED game

(***************************************************************************)
(* Player rows.  Player(...) in create_game / join_game sets user_id,      *)
(* color, turn_order, is_host and development_cards; every other column    *)
(* takes its default of models/game.py.                                    *)
(***************************************************************************)
Player(k, user_id, color, turn_order, is_host) ==
    [id |-> PlayerId(k), user_id |-> user_id, color |-> color,
     turn_order |-> turn_order, is_host |-> is_host,
     victory_points |-> 0, victory_cards |-> 0,
     gold |-> 0, stone |-> 0, cotton |-> 0, maize |-> 0, wood |-> 0,
     has_longest_path |-> FALSE, has_largest_army |-> FALSE,
     development_cards |-> <<>>]

\* the first of the positions S of a list, 0 if there is none: the row a
\* "for p in game.players: if ...: ...; break" loop stops at
FirstIndex(S) ==
    IF S = {} THEN 0 ELSE CHOOSE i \in S : \A j \in S : i <= j

(***************************************************************************)
(* The board (services/board.py).  BoardGenerator.generate_board numbers   *)
(* hexes, vertices and edges from 0.  Python None is written 0 for a       *)
(* number_token and "none" for a port_type.                                *)
(***************************************************************************)
CENTRO_CEREMONIAL == "centro_ceremonial"

TERRAIN_DISTRIBUTION ==
    Repeat("selva", 4) \o Repeat("canteras", 4) \o Repeat("valles", 4)
        \o Repeat("tierras_altas", 3) \o Repeat("sierra", 3) \o <<CENTRO_CEREMONIAL>>

NUMBER_TOKENS == <<2, 3, 3, 4, 4, 5, 5, 6, 6, 8, 8, 9, 9, 10, 10, 11, 11, 12>>

\* axial (q, r): the center, the inner ring, the outer ring
HEX_POSITIONS ==
    << <<0, 0>>,
       <<1, -1>>, <<1, 0>>, <<0, 1>>, <<-1, 1>>, <<-1, 0>>, <<0, -1>>,
       <<2, -2>>, <<2, -1>>, <<2, 0>>, <<1, 1>>, <<0, 2>>, <<-1, 2>>,
       <<-2, 2>>, <<-2, 1>>, <<-2, 0>>, <<-1, -1>>, <<0, -2>>, <<1, -2>> >>

PORT_TYPES ==
    Repeat("general", 4) \o <<"gold", "stone", "cotton", "maize", "wood">>

Hex(id, terrain, number_token, q, r) ==
    [id |-> id, terrain |-> terrain, number_token |-> number_token,
     has_conquistador |-> (terrain = CENTRO_CEREMONIAL), q |-> q, r |-> r]

\* the loop "for i, (q, r) in enumerate(cls.HEX_POSITIONS)" from its i-th
\* round on: the ceremonial center takes no token and does not advance
\* number_idx
RECURSIVE GenerateHexes(_, _, _, _, _)
GenerateHexes(positions, terrains, numbers, i, number_idx) ==
    IF i > Len(positions) THEN <<>>
    ELSE LET center == terrains[i] = CENTRO_CEREMONIAL
         IN  << Hex(i - 1, terrains[i], IF center THEN 0 ELSE numbers[number_idx],
                    positions[i][1], positions[i][2]) >>
                \o GenerateHexes(positions, terrains, numbers, i + 1,
                                 IF center THEN number_idx ELSE number_idx + 1)

\* conquistador_position left at the 0 it starts with
ConquistadorPositionUnset(terrains) == 0

\* conquistador_position = 0, then "conquistador_position = i" at a center
ConquistadorPosition(terrains) ==
    LET centers == {i \in DOMAIN terrains : terrains[i] = CENTRO_CEREMONIAL}
    IN  IF centers = {} THEN 0
        ELSE (CHOOSE i \in centers : \A j \in centers : j <= i) - 1

Vertex(id, position) ==
    [id |-> id, q |-> position[1], r |-> position[2], building |-> "none",
     player_id |-> 0, is_port |-> FALSE, port_type |-> "none"]

Edge(id, position) ==
    [id |-> id, q |-> position[1], r |-> position[2], direction |-> position[3],
     has_road |-> FALSE, player_id |-> 0]

\* the position _generate_vertices computes for a direction (1..6 here,
\* 0..5 in the code) of a hex
VertexPosition(hex, direction) ==
    << hex[1] * 3 + <<1, 2, 1, -1, -2, -1>>[direction],
       hex[2] * 3 + <<1, 0, -1, -1, 0, 1>>[direction] >>

EdgePosition(hex, direction) ==
    << hex[1] * 2 + <<1, 1, 0, -1, -1, 0>>[direction],
       hex[2] * 2 + <<0, 1, 1, 0, -1, -1>>[direction],
       (direction - 1) % 3 >>

\* the positions the two nested loops "for hex_q, hex_r in cls.HEX_POSITIONS:
\* for direction in range(6)" go through, in their order
VertexCandidates ==
    [k \in 1..(6 * Len(HEX_POSITIONS)) |->
        VertexPosition(HEX_POSITIONS[((k - 1) \div 6) + 1], ((k - 1) % 6) + 1)]

EdgeCandidates ==
    [k \in 1..(6 * Len(HEX_POSITIONS)) |->
        EdgePosition(HEX_POSITIONS[((k - 1) \div 6) + 1], ((k - 1) % 6) + 1)]

\* "if position not in positions: positions.add(position); items.append(...)":
\* the rounds of the loops that append, those whose position no earlier round
\* had
FirstSeen(candidates) ==
    {k \in DOMAIN candidates : \A j \in 1..(k - 1) : candidates[j] # candidates[k]}

\* the round that appends the item with a given id: the id counts the items
\* appended before
RoundOfId(rounds, id) ==
    CHOOSE k \in rounds : Cardinality({j \in rounds : j < k}) = id

_generate_vertices ==
    LET rounds == FirstSeen(VertexCandidates)
    IN  [n \in 1..Cardinality(rounds) |->
            Vertex(n - 1, VertexCandidates[RoundOfId(rounds, n - 1)])]

_generate_edges ==
    LET rounds == FirstSeen(EdgeCandidates)
    IN  [n \in 1..Cardinality(rounds) |->
            Edge(n - 1, EdgeCandidates[RoundOfId(rounds, n - 1)])]

port_vertex_pairs ==
    << <<0, 1>>, <<3, 4>>, <<7, 8>>, <<11, 12>>, <<15, 16>>,
       <<19, 20>>, <<23, 24>>, <<27, 28>>, <<31, 32>> >>

\* port_types is the outcome of random.shuffle(port_types)
_generate_ports(port_types) ==
    [i \in 1..Len(port_vertex_pairs) |->
        [id |-> i - 1, port_type |-> port_types[i], vertex_ids |-> port_vertex_pairs[i]]]

\* generate_board with the outcomes of its three shuffles as arguments
BoardGenerator_generate_board(terrains, numbers, port_types) ==
    [hexes |-> GenerateHexes(HEX_POSITIONS, terrains, numbers, 1, 1),
     vertices |-> _generate_vertices,
     edges |-> _generate_edges,
     ports |-> _generate_ports(port_types),
     conquistador_position |-> ConquistadorPosition(terrains)]

(***************************************************************************)
(* The engine reads of a hex its number_token, terrain and                 *)
(* has_conquistador, and reads and writes of a vertex its building and     *)
(* player_id and of an edge its has_road and player_id.  The games the     *)
(* engine is run on have a cut of the generated board: its first four hex  *)
(* positions, with the ceremonial center last and two hexes sharing the    *)
(* token 6, its first NumVertices vertices and NumEdges edges, and its     *)
(* ports.                                                                  *)
(***************************************************************************)
BoardTerrains == <<"sierra", "valles", "selva", CENTRO_CEREMONIAL>>

BoardHexes ==
    GenerateHexes(SubSeq(HEX_POSITIONS, 1, Len(BoardTerrains)), BoardTerrains,
                  <<6, 6, 8>>, 1, 1)

generate_board ==
    [hexes |-> BoardHexes,
     vertices |-> SubSeq(_generate_vertices, 1, NumVertices),
     edges |-> SubSeq(_generate_edges, 1, NumEdges),
     ports |-> _generate_ports(PORT_TYPES),
     conquistador_position |-> ConquistadorPosition(BoardTerrains)]

\* BoardGenerator.get_terrain_resource: "none" stands for None
get_terrain_resource(terrain) ==
    CASE terrain = "sierra" -> "gold"
      [] terrain = "canteras" -> "stone"
      [] terrain = "tierras_altas" -> "cotton"
      [] terrain = "valles" -> "maize"
      [] terrain = "selva" -> "wood"
      [] OTHER -> "none"

(***************************************************************************)
(* Initial states.  Every service method takes the Game aggregate as an    *)
(* argument, so the engine is run on WAITING games as create_game and one  *)
(* join_game build them (host = user 1, then user 2) whose Player rows     *)
(* hold a drawn endowment in the resource and victory_points columns, and  *)
(* whose deck is a drawn shuffle of DEVELOPMENT_CARDS.                     *)
(***************************************************************************)
Kit == [gold |-> 3, stone |-> 1, cotton |-> 1, maize |-> 3, wood |-> 1]

Endowments ==
    { [f \in DOMAIN Kit \cup {"victory_points"} |->
          IF f = "victory_points" THEN vp ELSE Kit[f]] : vp \in {0, 9} }

Endowed(p, e) == [f \in DOMAIN p |-> IF f \in DOMAIN e THEN e[f] ELSE p[f]]

\* the outcome of random.shuffle(dev_cards) the model draws: a victory-point
\* card on top (the last element, which pop() takes) and a warrior under it
DeckShuffles ==
    { SubSeq(DEVELOPMENT_CARDS, 2, Len(DEVELOPMENT_CARDS) - 1)
          \o <<DEVELOPMENT_CARDS[1], DEVELOPMENT_CARDS[Len(DEVELOPMENT_CARDS)]>> }

create_game(mp, deck, b) ==
    /\ max_players = mp
    /\ status = WAITING
    /\ current_turn = 0
    /\ winner_id = 0
    /\ board = b
    /\ development_deck = deck
    /\ last_dice_roll = <<>>
    /\ game_log = <<>>

Init ==
    \E mp \in MaxPlayersChoices, deck \in DeckShuffles, e1 \in Endowments, e2 \in Endowments :
        /\ create_game(mp, deck, generate_board)
        /\ players = << Endowed(Player(1, 1, AVAILABLE_COLORS[1], 0, TRUE), e1),
                        Endowed(Player(2, 2, AVAILABLE_COLORS[2], 1, FALSE), e2) >>
        /\ result = Returned("create_game", 1, "", 0, TRUE, <<>>)
        /\ InMemory

(***************************************************************************)
(* Helpers over the log.                                                   *)
(***************************************************************************)
CountLog(type) == Cardinality({i \in DOMAIN game_log : game_log[i].type = type})

\* every logged call appends one entry, and a winning one a game_won entry too
LogOpen == Len(game_log) - CountLog("game_won") < MaxCalls

(***************************************************************************)
(* join_game(db, game, user)                                               *)
(***************************************************************************)
\* a palette that offers every colour, used or not
AllColors(ps) == AVAILABLE_COLORS

AvailableColors(ps) ==
    SelectSeq(AVAILABLE_COLORS, LAMBDA c : c \notin {ps[i].color : i \in DOMAIN ps})

\* a join_game that refuses only a game that already holds more players than
\* max_players
join_game_past_capacity(user) ==
    LET existing == FirstIndex({i \in DOMAIN players : players[i].user_id = user})
        available == AvailableColors(players)
    IN  IF status # WAITING THEN Refused("join_game", user)
        ELSE IF Len(players) > max_players THEN Refused("join_game", user)
        ELSE IF existing # 0
             THEN /\ result' = Returned("join_game", user, "", 0, TRUE, players[existing].id)
                  /\ UNCHANGED game
        ELSE IF available = <<>> THEN Refused("join_game", user)
        ELSE /\ players' = Append(players,
                    Player(Len(players) + 1, user, available[1], Len(players), FALSE))
             /\ result' = Returned("join_game", user, "", 0, TRUE, PlayerId(Len(players) + 1))
             /\ UNCHANGED <<max_players, status, current_turn, winner_id, board,
                            development_deck, last_dice_roll, game_log>>

join_game(user) ==
    LET existing == FirstIndex({i \in DOMAIN players : players[i].user_id = user})
        available == AvailableColors(players)
    IN  IF status # WAITING THEN Refused("join_game", user)
        ELSE IF Len(players) >= max_players THEN Refused("join_game", user)
        ELSE IF existing # 0
             THEN /\ result' = Returned("join_game", user, "", 0, TRUE, players[existing].id)
                  /\ UNCHANGED game
        ELSE IF available = <<>> THEN Refused("join_game", user)
        ELSE /\ players' = Append(players,
                    Player(Len(players) + 1, user, available[1], Len(players), FALSE))
             /\ result' = Returned("join_game", user, "", 0, TRUE, PlayerId(Len(players) + 1))
             /\ UNCHANGED <<max_players, status, current_turn, winner_id, board,
                            development_deck, last_dice_roll, game_log>>

(***************************************************************************)
(* start_game(db, game, user_id).  random.shuffle(players) is the choice   *)
(* of order: the shuffled list holds game.players[order[i]] at place i.    *)
(***************************************************************************)
\* for i, player in enumerate(players): player.turn_order = i
AssignTurnOrder(ps, order) ==
    [j \in 1..Len(ps) |->
        [ps[j] EXCEPT !.turn_order = (CHOOSE i \in 1..Len(ps) : order[i] = j) - 1]]

\* [p.user_id for p in sorted(players, key=lambda x: x.turn_order)]
TurnOrderUserIds(ps) ==
    [k \in 1..Len(ps) |->
        ps[CHOOSE j \in 1..Len(ps) : ps[j].turn_order = k - 1].user_id]

\* a host check that accepts any player of the game
IsMemberCall(ps, user_id) == \E i \in DOMAIN ps : ps[i].user_id = user_id

IsHostCall(ps, user_id) == \E i \in DOMAIN ps : ps[i].is_host /\ ps[i].user_id = user_id

start_game(user_id, order) ==
    IF ~IsHostCall(players, user_id) THEN Fail("start_game", user_id, "", 0)
    ELSE IF Len(players) < MIN_PLAYERS THEN Fail("start_game", user_id, "", 0)
    ELSE LET ps == AssignTurnOrder(players, order)
         IN /\ players' = ps
            /\ status' = ACTIVE
            /\ current_turn' = 0
            /\ game_log' = Append(game_log,
                   [type |-> "game_started", turn_order |-> TurnOrderUserIds(ps)])
            /\ result' = Returned("start_game", user_id, "", 0, TRUE, <<>>)
            /\ UNCHANGED <<max_players, winner_id, board, development_deck, last_dice_roll>>

(***************************************************************************)
(* The player whose turn it is: the first row of game.players with         *)
(* turn_order == current_turn % len(game.players) (0 if there is none).    *)
(***************************************************************************)
CurrentPlayerIndex(ps, turn) ==
    FirstIndex({i \in DOMAIN ps : ps[i].turn_order = turn % Len(ps)})

PlayerIndex(ps, player_id) == FirstIndex({i \in DOMAIN ps : ps[i].id = player_id})

\* a turn check that finds the current player and does not compare the caller
IsTurnOfSomeone(ps, turn, player_id) == CurrentPlayerIndex(ps, turn) # 0

\* "if not current_player or current_player.id != player_id"
IsTurnOf(ps, turn, player_id) ==
    LET c == CurrentPlayerIndex(ps, turn)
    IN  c # 0 /\ ps[c].id = player_id

(***************************************************************************)
(* _distribute_resources(db, game, dice_total): for every hex with the     *)
(* rolled token and no conquistador, every vertex with a building and a    *)
(* player_id credits its owner, 1 for a bohio and 2 otherwise.             *)
(***************************************************************************)
RECURSIVE CreditVertices(_, _, _, _)
CreditVertices(ps, resource, vertices, k) ==
    IF k > Len(vertices) THEN ps
    ELSE LET vertex == vertices[k]
             i == PlayerIndex(ps, vertex.player_id)
             amount == IF vertex.building = BOHIO THEN 1 ELSE 2
         IN  IF vertex.building # "none" /\ vertex.player_id # 0 /\ i # 0
             THEN CreditVertices([ps EXCEPT ![i][resource] = @ + amount],
                                 resource, vertices, k + 1)
             ELSE CreditVertices(ps, resource, vertices, k + 1)

RECURSIVE DistributeHexes(_, _, _, _)
DistributeHexes(ps, b, dice_total, k) ==
    IF k > Len(b.hexes) THEN ps
    ELSE LET hex_tile == b.hexes[k]
             resource == get_terrain_resource(hex_tile.terrain)
         IN  IF hex_tile.number_token # dice_total \/ hex_tile.has_conquistador
                \/ resource = "none"
             THEN DistributeHexes(ps, b, dice_total, k + 1)
             ELSE DistributeHexes(CreditVertices(ps, resource, b.vertices, 1),
                                  b, dice_total, k + 1)

\* a distribution that stops at the first hex that produces
_distribute_first_hex(ps, b, dice_total) ==
    LET k == FirstIndex({h \in DOMAIN b.hexes :
                 /\ b.hexes[h].number_token = dice_total
                 /\ ~b.hexes[h].has_conquistador
                 /\ get_terrain_resource(b.hexes[h].terrain) # "none"})
    IN  IF k = 0 THEN ps
        ELSE CreditVertices(ps, get_terrain_resource(b.hexes[k].terrain), b.vertices, 1)

_distribute_resources(ps, b, dice_total) == DistributeHexes(ps, b, dice_total, 1)

(***************************************************************************)
(* roll_dice(db, game, player_id); die1, die2 are the random.randint(1, 6) *)
(***************************************************************************)
\* a roll_dice that on a 7 makes every player who holds more than seven
\* resources give up half of their gold
\* a roll of 7 moving the conquistador to the first hex
roll_dice_moving_conquistador(player_id, die1, die2) ==
    LET total == die1 + die2
    IN  IF status # ACTIVE THEN Fail("roll_dice", player_id, "", 0)
        ELSE IF ~IsTurnOf(players, current_turn, player_id)
             THEN Fail("roll_dice", player_id, "", 0)
        ELSE /\ last_dice_roll' = <<die1, die2>>
             /\ game_log' = Append(game_log,
                    [type |-> "dice_roll", player_id |-> player_id,
                     dice |-> <<die1, die2>>, total |-> total])
             /\ players' = IF total # 7
                           THEN _distribute_resources(players, board, total)
                           ELSE players
             /\ board' = IF total # 7 THEN board
                         ELSE [board EXCEPT
                                  !.hexes = [i \in DOMAIN board.hexes |->
                                      [board.hexes[i] EXCEPT !.has_conquistador = (i = 1)]],
                                  !.conquistador_position = 0]
             /\ result' = Returned("roll_dice", player_id, "", 0, TRUE, <<die1, die2>>)
             /\ UNCHANGED <<max_players, status, current_turn, winner_id,
                            development_deck>>

roll_dice_with_discard(player_id, die1, die2) ==
    LET total == die1 + die2
        held(p) == p.gold + p.stone + p.cotton + p.maize + p.wood
    IN  IF status # ACTIVE THEN Fail("roll_dice", player_id, "", 0)
        ELSE IF ~IsTurnOf(players, current_turn, player_id)
             THEN Fail("roll_dice", player_id, "", 0)
        ELSE /\ last_dice_roll' = <<die1, die2>>
             /\ game_log' = Append(game_log,
                    [type |-> "dice_roll", player_id |-> player_id,
                     dice |-> <<die1, die2>>, total |-> total])
             /\ players' = IF total # 7
                           THEN _distribute_resources(players, board, total)
                           ELSE [i \in DOMAIN players |->
                                    IF held(players[i]) > 7
                                    THEN [players[i] EXCEPT !.gold = @ \div 2]
                                    ELSE players[i]]
             /\ result' = Returned("roll_dice", player_id, "", 0, TRUE, <<die1, die2>>)
             /\ UNCHANGED <<max_players, status, current_turn, winner_id, board,
                            development_deck>>

roll_dice(player_id, die1, die2) ==
    LET total == die1 + die2
    IN  IF status # ACTIVE THEN Fail("roll_dice", player_id, "", 0)
        ELSE IF ~IsTurnOf(players, current_turn, player_id)
             THEN Fail("roll_dice", player_id, "", 0)
        ELSE /\ last_dice_roll' = <<die1, die2>>
             /\ game_log' = Append(game_log,
                    [type |-> "dice_roll", player_id |-> player_id,
                     dice |-> <<die1, die2>>, total |-> total])
             /\ players' = IF total # 7
                           THEN _distribute_resources(players, board, total)
                           ELSE players
             /\ result' = Returned("roll_dice", player_id, "", 0, TRUE, <<die1, die2>>)
             /\ UNCHANGED <<max_players, status, current_turn, winner_id, board,
                            development_deck>>

(***************************************************************************)
(* _check_victory(db, game): the first player of game.players whose total  *)
(* is at least 10 finishes the game.  The result is the new status,        *)
(* winner_id and game_log.                                                 *)
(***************************************************************************)
TotalPoints(p) ==
    p.victory_points + p.victory_cards
        + (IF p.has_longest_path THEN 2 ELSE 0)
        + (IF p.has_largest_army THEN 2 ELSE 0)

_check_victory(ps, st, winner, log) ==
    LET w == FirstIndex({i \in DOMAIN ps : TotalPoints(ps[i]) >= VICTORY_POINTS_TO_WIN})
    IN  IF w = 0
        THEN [status |-> st, winner_id |-> winner, game_log |-> log]
        ELSE [status |-> FINISHED,
              winner_id |-> ps[w].user_id,
              game_log |-> Append(log, [type |-> "game_won", winner_id |-> ps[w].id,
                                        points |-> TotalPoints(ps[w])])]

(***************************************************************************)
(* build(db, game, player_id, building_type, position_id)                  *)
(***************************************************************************)
\* an affordability check that tests that the player holds some of each
\* resource of the cost, not the amount
CanAffordSomeOfEach(p, costs) == \A resource \in DOMAIN costs : p[resource] >= 1

\* "for resource, amount in costs.items(): if getattr(player, resource) < amount"
CanAfford(p, costs) == \A resource \in DOMAIN costs : p[resource] >= costs[resource]

\* "setattr(player, resource, getattr(player, resource) - amount)"
Deduct(p, costs) ==
    [f \in DOMAIN p |-> IF f \in DOMAIN costs THEN p[f] - costs[f] ELSE p[f]]

\* the index in a list of board items of the one with the given id, 0 if none
ItemIndex(items, position_id) ==
    IF \E i \in DOMAIN items : items[i].id = position_id
    THEN CHOOSE i \in DOMAIN items : items[i].id = position_id
    ELSE 0

\* a placement in which the builder of a temple takes the vertex over
PlaceBuildingTakingOver(b, player_id, building_type, position_id) ==
    IF building_type = CAMINO
    THEN LET e == ItemIndex(b.edges, position_id)
         IN  IF e # 0 /\ ~b.edges[e].has_road
             THEN [board |-> [b EXCEPT !.edges[e].has_road = TRUE,
                                       !.edges[e].player_id = player_id],
                   points |-> 0]
             ELSE [board |-> b, points |-> 0]
    ELSE LET v == ItemIndex(b.vertices, position_id)
         IN  IF v # 0 /\ building_type = BOHIO /\ b.vertices[v].building = "none"
             THEN [board |-> [b EXCEPT !.vertices[v].building = BOHIO,
                                       !.vertices[v].player_id = player_id],
                   points |-> 1]
             ELSE IF v # 0 /\ building_type = TEMPLO /\ b.vertices[v].building = BOHIO
             THEN [board |-> [b EXCEPT !.vertices[v].building = TEMPLO,
                                       !.vertices[v].player_id = player_id],
                   points |-> 1]
             ELSE [board |-> b, points |-> 0]

\* "Place building on board": the board after the placement loop and the
\* victory points it gives the builder
PlaceBuilding(b, player_id, building_type, position_id) ==
    IF building_type = CAMINO
    THEN LET e == ItemIndex(b.edges, position_id)
         IN  IF e # 0 /\ ~b.edges[e].has_road
             THEN [board |-> [b EXCEPT !.edges[e].has_road = TRUE,
                                       !.edges[e].player_id = player_id],
                   points |-> 0]
             ELSE [board |-> b, points |-> 0]
    ELSE LET v == ItemIndex(b.vertices, position_id)
         IN  IF v # 0 /\ building_type = BOHIO /\ b.vertices[v].building = "none"
             THEN [board |-> [b EXCEPT !.vertices[v].building = BOHIO,
                                       !.vertices[v].player_id = player_id],
                   points |-> 1]
             ELSE IF v # 0 /\ building_type = TEMPLO /\ b.vertices[v].building = BOHIO
             THEN [board |-> [b EXCEPT !.vertices[v].building = TEMPLO],
                   points |-> 1]
             ELSE [board |-> b, points |-> 0]

\* lines 286-329 of build, for the player at index i of game.players:
\* deduct, place, log, check victory, return True
build_place(i, player_id, building_type, position_id) ==
    LET costs == BUILDING_COSTS[building_type]
        placed == PlaceBuilding(board, player_id, building_type, position_id)
        ps == [players EXCEPT ![i] =
                  [Deduct(@, costs) EXCEPT !.victory_points = @ + placed.points]]
        log == Append(game_log,
                  [type |-> "build", player_id |-> player_id,
                   building |-> building_type, position |-> position_id])
        v == _check_victory(ps, status, winner_id, log)
    IN  /\ players' = ps
        /\ board' = placed.board
        /\ status' = v.status
        /\ winner_id' = v.winner_id
        /\ game_log' = v.game_log
        /\ result' = Returned("build", player_id, building_type, position_id, TRUE, <<>>)
        /\ UNCHANGED <<max_players, current_turn, development_deck, last_dice_roll>>

\* a build that deducts each resource as it checks it, and so has taken the
\* first ones when a later one is missing
build_deducting_as_it_checks(player_id, building_type, position_id) ==
    LET i == PlayerIndex(players, player_id)
        costs == BUILDING_COSTS[building_type]
    IN  IF status # ACTIVE THEN Fail("build", player_id, building_type, position_id)
        ELSE IF i = 0 THEN Fail("build", player_id, building_type, position_id)
        ELSE IF ~CanAfford(players[i], costs)
             THEN /\ result' = Returned("build", 0, "", 0, FALSE, <<>>)
                  /\ players' = [players EXCEPT ![i] =
                        [f \in DOMAIN @ |->
                            IF f \in DOMAIN costs /\ @[f] >= costs[f]
                            THEN @[f] - costs[f] ELSE @[f]]]
                  /\ UNCHANGED <<max_players, status, current_turn, winner_id, board,
                                 development_deck, last_dice_roll, game_log>>
        ELSE build_place(i, player_id, building_type, position_id)

build(player_id, building_type, position_id) ==
    LET i == PlayerIndex(players, player_id)
        costs == BUILDING_COSTS[building_type]
    IN  IF status # ACTIVE THEN Fail("build", player_id, building_type, position_id)
        ELSE IF i = 0 THEN Fail("build", player_id, building_type, position_id)
        ELSE IF ~CanAfford(players[i], costs)
             THEN Fail("build", player_id, building_type, position_id)
        ELSE build_place(i, player_id, building_type, position_id)

(***************************************************************************)
(* buy_development_card(db, game, player_id)                               *)
(***************************************************************************)
\* a draw from the other end of the list
PopBottom(deck) == [card |-> deck[1], rest |-> SubSeq(deck, 2, Len(deck))]

\* a draw that leaves the drawn card in the deck
Peek(deck) == [card |-> deck[Len(deck)], rest |-> deck]

\* "card = game.game_state.development_deck.pop()": the last element and the
\* list without it
Pop(deck) == [card |-> deck[Len(deck)], rest |-> SubSeq(deck, 1, Len(deck) - 1)]

buy_development_card(player_id) ==
    LET i == PlayerIndex(players, player_id)
    IN  IF status # ACTIVE THEN Refused("buy_development_card", player_id)
        ELSE IF i = 0 THEN Refused("buy_development_card", player_id)
        ELSE IF ~CanAfford(players[i], DEVELOPMENT_CARD_COST)
             THEN Refused("buy_development_card", player_id)
        ELSE IF development_deck = <<>>
             THEN Refused("buy_development_card", player_id)
        ELSE LET drawn == Pop(development_deck)
                 card == drawn.card
                 ps == [players EXCEPT ![i] =
                           [Deduct(@, DEVELOPMENT_CARD_COST) EXCEPT
                               !.development_cards = Append(@, card),
                               !.victory_cards =
                                   IF card = AVANCE_ANCESTRAL THEN @ + 1 ELSE @]]
                 log == Append(game_log,
                           [type |-> "buy_development_card", player_id |-> player_id])
                 v == _check_victory(ps, status, winner_id, log)
             IN  /\ players' = ps
                 /\ development_deck' = drawn.rest
                 /\ status' = v.status
                 /\ winner_id' = v.winner_id
                 /\ game_log' = v.game_log
                 /\ result' = Returned("buy_development_card", player_id, "", 0, TRUE, card)
                 /\ UNCHANGED <<max_players, current_turn, board, last_dice_roll>>

(***************************************************************************)
(* end_turn(db, game, player_id)                                           *)
(***************************************************************************)
\* an end_turn that leaves the last dice roll in place
end_turn_keeping_roll(player_id) ==
    IF status # ACTIVE THEN Fail("end_turn", player_id, "", 0)
    ELSE IF ~IsTurnOf(players, current_turn, player_id)
         THEN Fail("end_turn", player_id, "", 0)
    ELSE /\ current_turn' = current_turn + 1
         /\ game_log' = Append(game_log,
                [type |-> "end_turn", player_id |-> player_id,
                 new_turn |-> current_turn + 1])
         /\ result' = Returned("end_turn", player_id, "", 0, TRUE, <<>>)
         /\ UNCHANGED <<max_players, status, winner_id, players, board,
                        development_deck, last_dice_roll>>

\* an end_turn that evaluates victory as build and buy_development_card do
end_turn_checking_victory(player_id) ==
    IF status # ACTIVE THEN Fail("end_turn", player_id, "", 0)
    ELSE IF ~IsTurnOf(players, current_turn, player_id)
         THEN Fail("end_turn", player_id, "", 0)
    ELSE LET log == Append(game_log,
                       [type |-> "end_turn", player_id |-> player_id,
                        new_turn |-> current_turn + 1])
             v == _check_victory(players, status, winner_id, log)
         IN  /\ current_turn' = current_turn + 1
             /\ last_dice_roll' = <<>>
             /\ status' = v.status
             /\ winner_id' = v.winner_id
             /\ game_log' = v.game_log
             /\ result' = Returned("end_turn", player_id, "", 0, TRUE, <<>>)
             /\ UNCHANGED <<max_players, players, board, development_deck>>

end_turn(player_id) ==
    IF status # ACTIVE THEN Fail("end_turn", player_id, "", 0)
    ELSE IF ~IsTurnOf(players, current_turn, player_id)
         THEN Fail("end_turn", player_id, "", 0)
    ELSE /\ current_turn' = current_turn + 1
         /\ last_dice_roll' = <<>>
         /\ game_log' = Append(game_log,
                [type |-> "end_turn", player_id |-> player_id,
                 new_turn |-> current_turn + 1])
         /\ result' = Returned("end_turn", player_id, "", 0, TRUE, <<>>)
         /\ UNCHANGED <<max_players, status, winner_id, players, board, development_deck>>

(***************************************************************************)
(* The calls.  A caller passes any user id, any Player id of the game or   *)
(* an id of no player (0), any building type and any position id from 0    *)
(* to one past the last vertex or edge.                                    *)
(***************************************************************************)
\* the outcomes of random.randint(1, 6) the model draws: 6, 7 (twice) and 8
DieFaces == {3, 4}

PlayerIds == {players[i].id : i \in DOMAIN players} \cup {0}

PositionIds == 0..(IF NumVertices > NumEdges THEN NumVertices ELSE NumEdges)

\* the outcomes of random.shuffle(players) the model draws
ShuffleOutcomes(n) == {[i \in 1..n |-> ((i - 1 + k) % n) + 1] : k \in 0..MaxShift}

JoinGame ==
    \E user \in Users :
        /\ LogOpen
        /\ join_game(user)
        /\ UNCHANGED <<stored, session, apart>>

StartGame ==
    \E user_id \in Users, order \in ShuffleOutcomes(Len(players)) :
        /\ LogOpen
        /\ CountLog("game_started") < MaxStarts
        /\ start_game(user_id, order)
        /\ UNCHANGED <<stored, session, apart>>

RollDice ==
    \E player_id \in PlayerIds, die1 \in DieFaces, die2 \in DieFaces :
        /\ LogOpen
        /\ CountLog("dice_roll") < MaxRolls
        /\ roll_dice(player_id, die1, die2)
        /\ UNCHANGED <<stored, session, apart>>

Build ==
    \E player_id \in PlayerIds, building_type \in BuildingType, position_id \in PositionIds :
        /\ LogOpen
        /\ build(player_id, building_type, position_id)
        /\ UNCHANGED <<stored, session, apart>>

BuyDevelopmentCard ==
    \E player_id \in PlayerIds :
        /\ LogOpen
        /\ buy_development_card(player_id)
        /\ UNCHANGED <<stored, session, apart>>

EndTurn ==
    \E player_id \in PlayerIds :
        /\ LogOpen
        /\ CountLog("end_turn") < MaxTurns
        /\ end_turn(player_id)
        /\ UNCHANGED <<stored, session, apart>>

Next == JoinGame \/ StartGame \/ RollDice \/ Build \/ BuyDevelopmentCard \/ EndTurn

Spec == Init /\ [][Next]_vars

(***************************************************************************)
(* The lobby: the game as create_game returns it (the host its only        *)
(* player), joined and started by any of MaxLobbyUsers users.              *)
(***************************************************************************)
LobbyUsers == 1..MaxLobbyUsers

LobbyInit ==
    \E mp \in MaxPlayersChoices, deck \in DeckShuffles :
        /\ create_game(mp, deck, generate_board)
        /\ players = << Player(1, 1, AVAILABLE_COLORS[1], 0, TRUE) >>
        /\ result = Returned("create_game", 1, "", 0, TRUE, <<>>)
        /\ InMemory

LobbyJoin ==
    \E user \in LobbyUsers : join_game(user) /\ UNCHANGED <<stored, session, apart>>

LobbyStart ==
    \E user_id \in LobbyUsers, order \in ShuffleOutcomes(Len(players)) :
        /\ CountLog("game_started") < MaxStarts
        /\ start_game(user_id, order)
        /\ UNCHANGED <<stored, session, apart>>

LobbyNext == LobbyJoin \/ LobbyStart

LobbySpec == LobbyInit /\ [][LobbyNext]_vars

(***************************************************************************)
(* The late game: an ACTIVE game of three players as start_game leaves it, *)
(* in which all but 0..MaxDeckLeft cards of the deck have been bought; the *)
(* host holds the cards drawn so far, in the order pop() gave them, and    *)
(* nobody has reached 10 points.  The deck is the reverse of the drawn     *)
(* shuffle, another outcome of random.shuffle(dev_cards): its last cards   *)
(* are a victory-point card under a warrior.                               *)
(***************************************************************************)
Reverse(seq) == [k \in 1..Len(seq) |-> seq[Len(seq) + 1 - k]]

\* the cards pop() has taken from deck when left of them remain
Drawn(deck, left) == [k \in 1..(Len(deck) - left) |-> deck[Len(deck) + 1 - k]]

CountCard(cards, card) == Cardinality({k \in DOMAIN cards : cards[k] = card})

LateInit ==
    \E left \in 0..MaxDeckLeft, shuffle \in DeckShuffles,
       e1 \in Endowments, e2 \in Endowments :
        LET deck == Reverse(shuffle)
            hand == Drawn(deck, left)
            ps == << [Endowed(Player(1, 1, AVAILABLE_COLORS[1], 0, TRUE), e1) EXCEPT
                         !.development_cards = hand,
                         !.victory_cards = CountCard(hand, AVANCE_ANCESTRAL)],
                     Endowed(Player(2, 2, AVAILABLE_COLORS[2], 1, FALSE), e2),
                     Endowed(Player(3, 3, AVAILABLE_COLORS[3], 2, FALSE), e2) >>
        IN  /\ \A i \in DOMAIN ps : TotalPoints(ps[i]) < VICTORY_POINTS_TO_WIN
            /\ max_players = Len(AVAILABLE_COLORS)
            /\ status = ACTIVE
            /\ current_turn = 0
            /\ winner_id = 0
            /\ players = ps
            /\ board = generate_board
            /\ development_deck = SubSeq(deck, 1, left)
            /\ last_dice_roll = <<>>
            /\ game_log = << [type |-> "game_started", turn_order |-> TurnOrderUserIds(ps)] >>
            /\ result = Returned("start_game", 1, "", 0, TRUE, <<>>)
            /\ InMemory

LateSpec == LateInit /\ [][Next]_vars

(***************************************************************************)
(* Board generation: the game as create_game returns it, with the board    *)
(* generate_board made for it, and create_game called again.  The terrain  *)
(* shuffle is drawn among all rotations of TERRAIN_DISTRIBUTION, so the    *)
(* ceremonial center falls on every hex position.                          *)
(***************************************************************************)
Rotate(seq, k) == [i \in 1..Len(seq) |-> seq[((i - 1 + k) % Len(seq)) + 1]]

\* the outcomes of random.shuffle(terrains), random.shuffle(numbers) and
\* random.shuffle(port_types) the model draws
TerrainShuffles ==
    {Rotate(TERRAIN_DISTRIBUTION, k) : k \in 0..(Len(TERRAIN_DISTRIBUTION) - 1)}

NumberShuffles == {Rotate(NUMBER_TOKENS, k) : k \in 0..MaxTokenShift}

PortShuffles == {Rotate(PORT_TYPES, k) : k \in 0..MaxPortShift}

BoardInit ==
    \E mp \in MaxPlayersChoices, deck \in DeckShuffles, terrains \in TerrainShuffles,
       numbers \in NumberShuffles, port_types \in PortShuffles :
        /\ create_game(mp, deck, BoardGenerator_generate_board(terrains, numbers, port_types))
        /\ players = << Player(1, 1, AVAILABLE_COLORS[1], 0, TRUE) >>
        /\ result = Returned("create_game", 1, "", 0, TRUE, <<>>)
        /\ InMemory

\* create_game called again: the game it returns has a board of its own
CreateGame ==
    \E mp \in MaxPlayersChoices, deck \in DeckShuffles, terrains \in TerrainShuffles,
       numbers \in NumberShuffles, port_types \in PortShuffles :
        /\ max_players' = mp
        /\ status' = WAITING
        /\ current_turn' = 0
        /\ winner_id' = 0
        /\ board' = BoardGenerator_generate_board(terrains, numbers, port_types)
        /\ development_deck' = deck
        /\ last_dice_roll' = <<>>
        /\ game_log' = <<>>
        /\ players' = << Player(1, 1, AVAILABLE_COLORS[1], 0, TRUE) >>
        /\ result' = Returned("create_game", 1, "", 0, TRUE, <<>>)
        /\ UNCHANGED <<stored, session, apart>>

BoardSpec == BoardInit /\ [][CreateGame]_vars

(***************************************************************************)
(* Seeded generation.  generate_board(seed) draws its three shuffles from  *)
(* the one generator of the module random, which random.seed(seed) sets    *)
(* when a seed is given.  The generator is a deterministic machine: what a *)
(* shuffle returns and the state it leaves are functions of the state it   *)
(* found and of the length of the list.  Its states are numbered, and a    *)
(* shuffle of state s turns the list by s places.                          *)
(***************************************************************************)
\* the states of the generator, and the seeds passed to generate_board
RandomStates == 31
MaxSeed == 3

None == -1
Seeds == 0..MaxSeed

\* random.seed(a): the state is a function of a alone
random_seed(a) == (7 * a + 3) % RandomStates

\* random.shuffle(x) in state st: the shuffled list and the state left
random_shuffle(x, st) ==
    [x |-> Rotate(x, st % Len(x)), state |-> (5 * st + Len(x)) % RandomStates]

\* "if seed:" in place of "if seed is not None:"
generate_board_testing_seed(seed, st) ==
    LET seeded == IF seed # None /\ seed # 0 THEN random_seed(seed) ELSE st
        terrains == random_shuffle(TERRAIN_DISTRIBUTION, seeded)
        numbers == random_shuffle(NUMBER_TOKENS, terrains.state)
        port_types == random_shuffle(PORT_TYPES, numbers.state)
    IN  [board |-> BoardGenerator_generate_board(terrains.x, numbers.x, port_types.x),
         state |-> port_types.state]

\* generate_board(seed) called with the generator in state st: the board
\* returned and the state the generator is left in
generate_board_with_seed(seed, st) ==
    LET seeded == IF seed # None THEN random_seed(seed) ELSE st
        terrains == random_shuffle(TERRAIN_DISTRIBUTION, seeded)
        numbers == random_shuffle(NUMBER_TOKENS, terrains.state)
        port_types == random_shuffle(PORT_TYPES, numbers.state)
    IN  [board |-> BoardGenerator_generate_board(terrains.x, numbers.x, port_types.x),
         state |-> port_types.state]

\* a game created with the generator in any state (it is seeded from the
\* system when the module is imported); board is the board generate_board
\* last returned
SeedInit ==
    \E mp \in MaxPlayersChoices, deck \in DeckShuffles, st \in 0..(RandomStates - 1) :
        LET generated == generate_board_with_seed(None, st)
        IN  /\ create_game(mp, deck, generated.board)
            /\ players = << Player(1, 1, AVAILABLE_COLORS[1], 0, TRUE) >>
            /\ result = Returned("create_game", 1, "", 0, TRUE, <<>>)
            /\ stored = <<>> /\ session = <<>>
            /\ random_state = generated.state
            /\ manager = <<>> /\ client = <<>>

\* generate_board called with a seed, or with none
GenerateBoard ==
    \E seed \in Seeds \cup {None} :
        LET generated == generate_board_with_seed(seed, random_state)
        IN  /\ board' = generated.board
            /\ random_state' = generated.state
            /\ result' = Returned("generate_board", 0, "", 0, TRUE,
                                  IF seed = None THEN <<>> ELSE <<seed>>)
            /\ UNCHANGED <<max_players, status, current_turn, winner_id, players,
                           development_deck, last_dice_roll, game_log,
                           stored, session, manager, client>>

SeedSpec == SeedInit /\ [][GenerateBoard]_vars

(***************************************************************************)
(* The websocket endpoint.  manager.active_connections maps a game token   *)
(* to the set of its registered connections; every connection has a task   *)
(* running game_websocket, which the event loop suspends at an await and   *)
(* resumes later: between two awaits a task runs alone.  A task stands at  *)
(*   new        before manager.connect                                     *)
(*   auth       in receive_json for the auth message (line 86)             *)
(*   confirmed  in send_personal of the confirmation (line 109)            *)
(*   listening  in receive_json of the message loop (line 123)             *)
(*   broadcast  in connection.send_json inside broadcast_to_game (line 41) *)
(*   closed     returned after websocket.close() (lines 93-94, 103-104)    *)
(*   gone       ended, through an except clause or with an exception       *)
(* iter is the iterator of the for loop of line 39: the size of the set    *)
(* when the loop began (a set iterator raises RuntimeError when the size   *)
(* has changed), the set then, the connections visited, the one being sent *)
(* to, dead_connections, and whether the set it iterates has been deleted  *)
(* from the registry since (the iterator keeps the emptied set).           *)
(***************************************************************************)
\* the connections opened on the game
NumSockets == 3

Sockets == 1..NumSockets
GAME_TOKEN == "game_token"

NewTask == [pc |-> "new", user_id |-> 0, after |-> "", iter |-> <<>>, raised |-> ""]

\* the other end of the connection is there: send_json does not raise
Open(tk) ==
    \/ tk.pc \in {"auth", "confirmed", "listening"}
    \/ tk.pc = "broadcast" /\ tk.after = "listening"

\* ConnectionManager.connect, after websocket.accept()
connect(active_connections, websocket, game_token) ==
    IF game_token \in DOMAIN active_connections
    THEN [active_connections EXCEPT ![game_token] = @ \cup {websocket}]
    ELSE active_connections @@ (game_token :> {websocket})

\* ConnectionManager.disconnect
disconnect(active_connections, websocket, game_token) ==
    IF game_token \notin DOMAIN active_connections
    THEN active_connections
    ELSE LET left == active_connections[game_token] \ {websocket}
         IN  IF left = {}
             THEN [t \in DOMAIN active_connections \ {game_token} |-> active_connections[t]]
             ELSE [active_connections EXCEPT ![game_token] = left]

\* the loops in progress on a set that "del" has taken out of the registry
\* go on with that set, which stays empty
Detached(task, before, now, game_token) ==
    [w \in DOMAIN task |->
        IF task[w].iter # <<>> /\ game_token \in DOMAIN before /\ game_token \notin DOMAIN now
        THEN [task[w] EXCEPT !.iter.stale = TRUE]
        ELSE task[w]]

\* the task of websocket goes on as tk, with the registry active_connections
Goes(websocket, active_connections, tk) ==
    manager' = [active_connections |-> active_connections,
                task |-> [Detached(manager.task, manager.active_connections,
                                   active_connections, GAME_TOKEN) EXCEPT ![websocket] = tk]]

\* broadcast_to_game called: lines 37-41, up to the first send; it returns at
\* once when the token is not registered or its set is empty
Enter(websocket, active_connections, tk, after) ==
    IF GAME_TOKEN \notin DOMAIN active_connections \/ active_connections[GAME_TOKEN] = {}
    THEN Goes(websocket, active_connections, [tk EXCEPT !.pc = after, !.iter = <<>>])
    ELSE \E connection \in active_connections[GAME_TOKEN] :
            Goes(websocket, active_connections,
                 [tk EXCEPT !.pc = "broadcast", !.after = after,
                            !.iter = [used |-> Cardinality(active_connections[GAME_TOKEN]),
                                      start |-> active_connections[GAME_TOKEN],
                                      visited |-> {}, current |-> connection,
                                      dead |-> {}, stale |-> FALSE]])

\* broadcast_to_game raises.  Called from the try block (lines 116, 133) the
\* exception reaches "except Exception" (150-156): disconnect, then the
\* player_disconnected broadcast.  Called from an except clause (145, 153) it
\* leaves game_websocket.
Raise(websocket, active_connections, tk, error) ==
    IF tk.after = "gone"
    THEN Goes(websocket, active_connections,
              [tk EXCEPT !.pc = "gone", !.iter = <<>>, !.raised = error])
    ELSE Enter(websocket, disconnect(active_connections, websocket, GAME_TOKEN),
               [tk EXCEPT !.raised = error], "gone")

\* lines 45-47: dead_connections are discarded from the set of the token
Cleanup(websocket, active_connections, tk) ==
    IF tk.iter.dead = {}
    THEN Goes(websocket, active_connections, [tk EXCEPT !.pc = tk.after, !.iter = <<>>])
    ELSE IF GAME_TOKEN \notin DOMAIN active_connections
         THEN Raise(websocket, active_connections, tk, "KeyError")
         ELSE Goes(websocket,
                   [active_connections EXCEPT ![GAME_TOKEN] = @ \ tk.iter.dead],
                   [tk EXCEPT !.pc = tk.after, !.iter = <<>>])

\* line 39, the for loop asks its iterator for the next connection: the
\* iterator raises when the set has changed size; a connection added since
\* the loop began is met or not, by the slot it fell in
Loop(websocket, active_connections, tk) ==
    IF tk.iter.stale \/ Cardinality(active_connections[GAME_TOKEN]) # tk.iter.used
    THEN Raise(websocket, active_connections, tk, "RuntimeError")
    ELSE LET rest == active_connections[GAME_TOKEN] \ tk.iter.visited
         IN  \/ \E connection \in rest :
                    Goes(websocket, active_connections,
                         [tk EXCEPT !.iter.current = connection])
             \/ /\ rest \subseteq (active_connections[GAME_TOKEN] \ tk.iter.start)
                /\ Cleanup(websocket, active_connections, tk)

SocketInit ==
    \E mp \in MaxPlayersChoices, deck \in DeckShuffles :
        /\ create_game(mp, deck, generate_board)
        /\ players = << Player(1, 1, AVAILABLE_COLORS[1], 0, TRUE) >>
        /\ result = Returned("create_game", 1, "", 0, TRUE, <<>>)
        /\ stored = <<>> /\ session = <<>>
        /\ random_state = <<>> /\ client = <<>>
        /\ manager = [active_connections |-> <<>>, task |-> [w \in Sockets |-> NewTask]]

Aside == UNCHANGED <<game, result, stored, session, random_state, client>>

\* line 80: manager.connect, then the task waits for the auth message
Connect ==
    \E websocket \in Sockets :
        /\ manager.task[websocket].pc = "new"
        /\ Goes(websocket, connect(manager.active_connections, websocket, GAME_TOKEN),
                [manager.task[websocket] EXCEPT !.pc = "auth"])
        /\ Aside

\* lines 86-106: the first message arrives; one that is no auth message or
\* holds no valid token gets an error, websocket.close() and return
ReceiveAuth ==
    \E websocket \in Sockets, valid \in BOOLEAN :
        /\ manager.task[websocket].pc = "auth"
        /\ Goes(websocket, manager.active_connections,
                IF valid
                THEN [manager.task[websocket] EXCEPT !.pc = "confirmed", !.user_id = websocket]
                ELSE [manager.task[websocket] EXCEPT !.pc = "closed"])
        /\ Aside

\* lines 109-119: the confirmation is sent, then player_connected is broadcast
NotifyOthers ==
    \E websocket \in Sockets :
        /\ manager.task[websocket].pc = "confirmed"
        /\ Enter(websocket, manager.active_connections, manager.task[websocket], "listening")
        /\ Aside

\* lines 123-137: a chat message arrives and is broadcast
Chat ==
    \E websocket \in Sockets :
        /\ manager.task[websocket].pc = "listening"
        /\ Enter(websocket, manager.active_connections, manager.task[websocket], "listening")
        /\ Aside

\* lines 142-148: the client goes away, receive_json raises WebSocketDisconnect
Drop ==
    \E websocket \in Sockets :
        LET tk == manager.task[websocket]
            left == disconnect(manager.active_connections, websocket, GAME_TOKEN)
        IN  /\ tk.pc \in {"auth", "listening"}
            /\ IF tk.user_id # 0
               THEN Enter(websocket, left, tk, "gone")
               ELSE Goes(websocket, left, [tk EXCEPT !.pc = "gone"])
            /\ Aside

\* lines 40-43 and 39: the send the task was suspended in ends, by returning
\* or by raising when the connection is closed, and the loop goes on
Sent ==
    \E websocket \in Sockets :
        LET tk == manager.task[websocket]
            connection == tk.iter.current
        IN  /\ tk.pc = "broadcast"
            /\ Loop(websocket, manager.active_connections,
                    [tk EXCEPT !.iter.visited = @ \cup {connection},
                               !.iter.current = 0,
                               !.iter.dead = IF Open(manager.task[connection])
                                             THEN @ ELSE @ \cup {connection}])
            /\ Aside

SocketNext == Connect \/ ReceiveAuth \/ NotifyOthers \/ Chat \/ Drop \/ Sent

SocketSpec == SocketInit /\ [][SocketNext]_vars

(***************************************************************************)
(* The AI client.  play_turn, entered when it is the client's turn, with   *)
(* the heuristic player (agent is None): the loop of lines 99-161 decides  *)
(* an action from game_state, the client's copy of the game, sends it to   *)
(* the server, which runs the service on the game, and sleeps a second.    *)
(* client.pc is "loop" at line 99, "sleep" at line 161, "returned" after   *)
(* the return of line 155 and "break" after a break.                       *)
(***************************************************************************)
\* what the client's player holds when its turn begins
ClientEndowments ==
    { Kit,
      [gold |-> 6, stone |-> 0, cotton |-> 1, maize |-> 1, wood |-> 0],
      [gold |-> 0, stone |-> 2, cotton |-> 0, maize |-> 0, wood |-> 2],
      [gold |-> 0, stone |-> 0, cotton |-> 0, maize |-> 0, wood |-> 0] }

\* _build_game_state_response: what get_game and build answer
GameStateResponse == [status |-> status, players |-> players, board |-> board]

\* game_state.py get_available_actions
get_available_actions(game_state, player_id) ==
    LET i == PlayerIndex(game_state.players, player_id)
        player == game_state.players[i]
        has_bohio == \E v \in DOMAIN game_state.board.vertices :
                        /\ game_state.board.vertices[v].building = BOHIO
                        /\ game_state.board.vertices[v].player_id = player_id
    IN  IF i = 0 THEN {}
        ELSE (IF CanAfford(player, BUILDING_COSTS[CAMINO]) THEN {"build_camino"} ELSE {})
             \cup (IF CanAfford(player, BUILDING_COSTS[BOHIO]) THEN {"build_bohio"} ELSE {})
             \cup (IF CanAfford(player, BUILDING_COSTS[TEMPLO]) /\ has_bohio
                   THEN {"build_templo"} ELSE {})
             \cup (IF CanAfford(player, DEVELOPMENT_CARD_COST) THEN {"buy_card"} ELSE {})
             \cup {"end_turn"}

\* game_state.py find_valid_build_positions: the ids, in board order
find_valid_build_positions(game_state, player_id, building_type) ==
    LET NoRoad(edge) == ~edge.has_road
        Empty(vertex) == vertex.building = "none"
        OwnBohio(vertex) == vertex.building = BOHIO /\ vertex.player_id = player_id
        found == IF building_type = CAMINO
                 THEN SelectSeq(game_state.board.edges, NoRoad)
                 ELSE IF building_type = BOHIO
                 THEN SelectSeq(game_state.board.vertices, Empty)
                 ELSE SelectSeq(game_state.board.vertices, OwnBohio)
    IN  [k \in DOMAIN found |-> found[k].id]

GameAction(action_type, building_type, position_id) ==
    [action_type |-> action_type, building_type |-> building_type,
     position_id |-> position_id]

\* agent.py heuristic_action
heuristic_action(player, game_state, available_actions) ==
    LET templos == find_valid_build_positions(game_state, player.id, TEMPLO)
        bohios == find_valid_build_positions(game_state, player.id, BOHIO)
        caminos == find_valid_build_positions(game_state, player.id, CAMINO)
        total == player.gold + player.stone + player.cotton + player.maize + player.wood
    IN  IF "build_templo" \in available_actions /\ templos # <<>>
        THEN GameAction("build", TEMPLO, templos[1])
        ELSE IF "build_bohio" \in available_actions /\ bohios # <<>>
        THEN GameAction("build", BOHIO, bohios[1])
        ELSE IF "build_camino" \in available_actions /\ caminos # <<>>
        THEN GameAction("build", CAMINO, caminos[1])
        ELSE IF "buy_card" \in available_actions /\ total > 7
        THEN GameAction("buy_card", "", 0)
        ELSE GameAction("end_turn", "", 0)

\* lines 106-115: the action of this iteration
Decided ==
    IF ~client.has_rolled
    THEN GameAction("roll", "", 0)
    ELSE heuristic_action(
             client.game_state.players[PlayerIndex(client.game_state.players,
                                                   client.my_player_id)],
             client.game_state,
             get_available_actions(client.game_state, client.my_player_id))

\* an ACTIVE game just started, in which the client is the player of turn 0
\* and has read the game (lines 83-97)
ClientInit ==
    \E n \in MaxPlayersChoices, deck \in DeckShuffles, e \in ClientEndowments :
        \E order \in ShuffleOutcomes(n) :
            LET joined == [k \in 1..n |-> Player(k, k, AVAILABLE_COLORS[k], k - 1, k = 1)]
                started == AssignTurnOrder(joined, order)
                me == CurrentPlayerIndex(started, 0)
            IN  /\ max_players = n
                /\ status = ACTIVE
                /\ current_turn = 0
                /\ winner_id = 0
                /\ players = [started EXCEPT ![me] = Endowed(@, e)]
                /\ board = generate_board
                /\ development_deck = deck
                /\ last_dice_roll = <<>>
                /\ game_log = << [type |-> "game_started",
                                  turn_order |-> TurnOrderUserIds(started)] >>
                /\ result = Returned("start_game", 1, "", 0, TRUE, <<>>)
                /\ stored = <<>> /\ session = <<>>
                /\ random_state = <<>> /\ manager = <<>>
                /\ client = [pc |-> "loop", my_player_id |-> started[me].id,
                             has_rolled |-> FALSE, game_state |-> GameStateResponse]

Server == UNCHANGED <<stored, session, random_state, manager>>

\* lines 121-133: roll; a roll that succeeded is followed by get_game
ClientRoll ==
    \E die1 \in DieFaces, die2 \in DieFaces :
        /\ client.pc = "loop"
        /\ Decided.action_type = "roll"
        /\ roll_dice(client.my_player_id, die1, die2)
        /\ client' = IF result'.ok
                     THEN [client EXCEPT !.pc = "sleep", !.has_rolled = TRUE,
                                         !.game_state = GameStateResponse']
                     ELSE [client EXCEPT !.pc = "break"]
        /\ Server

\* lines 135-142: build; only a build that succeeded refreshes game_state
ClientBuild ==
    /\ client.pc = "loop"
    /\ Decided.action_type = "build"
    /\ build(client.my_player_id, Decided.building_type, Decided.position_id)
    /\ client' = IF result'.ok
                 THEN [client EXCEPT !.pc = "sleep", !.game_state = GameStateResponse']
                 ELSE [client EXCEPT !.pc = "sleep"]
    /\ Server

\* lines 144-149: buy_card; game_state stays as it was
ClientBuyCard ==
    /\ client.pc = "loop"
    /\ Decided.action_type = "buy_card"
    /\ buy_development_card(client.my_player_id)
    /\ client' = [client EXCEPT !.pc = "sleep"]
    /\ Server

\* lines 151-158: end_turn returns, or breaks when the server refuses
ClientEndTurn ==
    /\ client.pc = "loop"
    /\ Decided.action_type = "end_turn"
    /\ end_turn(client.my_player_id)
    /\ client' = [client EXCEPT !.pc = IF result'.ok THEN "returned" ELSE "break"]
    /\ Server

\* line 161: asyncio.sleep(1) ends and the loop goes on
Wake ==
    /\ client.pc = "sleep"
    /\ client' = [client EXCEPT !.pc = "loop"]
    /\ UNCHANGED <<game, result>>
    /\ Server

ClientNext == ClientRoll \/ ClientBuild \/ ClientBuyCard \/ ClientEndTurn \/ Wake

\* the client is a running process: an iteration it can take, it takes
ClientSpec == ClientInit /\ [][ClientNext]_vars /\ WF_vars(ClientNext)

(***************************************************************************)
(* The stored game.  Every route of api/games.py loads the Game aggregate  *)
(* with get_game_by_token in the session of its request, calls the service *)
(* on it, and the service ends with db.flush(); the next request loads the *)
(* rows again.  The flush writes what the unit of work has tracked: an     *)
(* attribute that was assigned a new value, and a row that was added.      *)
(* board, development_deck and game_log are plain JSON columns             *)
(* (models/game.py) that the service changes in place (append, pop, item   *)
(* assignment), which assigns nothing; last_dice_roll and                  *)
(* Player.development_cards are assigned.  Two requests on the same game   *)
(* may both load it before either saves: nothing in the routes or in the   *)
(* service holds the second one back.                                      *)
(***************************************************************************)
StoreUsers == 1..(NumUsers + 1)

\* the Game aggregate a request holds
Aggregate ==
    [max_players |-> max_players, status |-> status, current_turn |-> current_turn,
     winner_id |-> winner_id, players |-> players, board |-> board,
     development_deck |-> development_deck, last_dice_roll |-> last_dice_roll,
     game_log |-> game_log]

\* the JSON columns the service changes in place
MutatedInPlace == {"board", "development_deck", "game_log"}

\* the rows after the flush of a request that loaded the aggregate as loaded
\* and left it as now: UPDATEs of the attributes assigned a new value, INSERTs
\* of the Player rows added (their id is the next key of the table)
Flush(rows, loaded, now) ==
    LET updated ==
            [i \in DOMAIN rows.players |->
                IF i \in DOMAIN loaded.players
                THEN [f \in DOMAIN rows.players[i] |->
                         IF now.players[i][f] # loaded.players[i][f]
                         THEN now.players[i][f]
                         ELSE rows.players[i][f]]
                ELSE rows.players[i]]
        inserted ==
            [j \in 1..(Len(now.players) - Len(loaded.players)) |->
                [now.players[Len(loaded.players) + j] EXCEPT
                    !.id = PlayerId(Len(rows.players) + j)]]
    IN  [f \in DOMAIN rows |->
            CASE f = "players" -> updated \o inserted
              [] f \in MutatedInPlace -> rows[f]
              [] OTHER -> IF now[f] # loaded[f] THEN now[f] ELSE rows[f]]

\* get_game_by_token: the aggregate of the request is what the rows hold
get_game_by_token(rows) ==
    /\ max_players' = rows.max_players
    /\ status' = rows.status
    /\ current_turn' = rows.current_turn
    /\ winner_id' = rows.winner_id
    /\ players' = rows.players
    /\ board' = rows.board
    /\ development_deck' = rows.development_deck
    /\ last_dice_roll' = rows.last_dice_roll
    /\ game_log' = rows.game_log

StoreInit ==
    \E mp \in MaxPlayersChoices, deck \in DeckShuffles, e1 \in Endowments, e2 \in Endowments :
        /\ create_game(mp, deck, generate_board)
        /\ players = << Endowed(Player(1, 1, AVAILABLE_COLORS[1], 0, TRUE), e1),
                        Endowed(Player(2, 2, AVAILABLE_COLORS[2], 1, FALSE), e2) >>
        /\ result = Returned("create_game", 1, "", 0, TRUE, <<>>)
        /\ stored = Aggregate
        /\ session = [phase |-> "closed", parked |-> <<>>, served |-> 0]
        /\ Alone

\* a request arrives on a game on which no request is in flight, and loads it
Reload ==
    /\ session.phase = "closed"
    /\ session.parked = <<>>
    /\ session.served < MaxRequests
    /\ get_game_by_token(stored)
    /\ session' = [session EXCEPT !.phase = "loaded"]
    /\ UNCHANGED <<result, stored, apart>>

\* a second request loads the game while the first has loaded it and not yet
\* saved: its aggregate is the same, and it waits
Park ==
    /\ session.phase = "loaded"
    /\ session.parked = <<>>
    /\ session.served + 2 <= MaxRequests
    /\ session' = [session EXCEPT !.parked = <<Aggregate>>]
    /\ UNCHANGED <<game, result, stored, apart>>

\* the first request has saved: the second goes on with the aggregate it loaded
Resume ==
    /\ session.phase = "closed"
    /\ session.parked # <<>>
    /\ get_game_by_token(session.parked[1])
    /\ session' = [session EXCEPT !.phase = "resumed", !.parked = <<>>]
    /\ UNCHANGED <<result, stored, apart>>

InFlight == session.phase \in {"loaded", "resumed"}

\* db.flush() at the end of the service call, and the end of the request
Save ==
    /\ stored' = Flush(stored, Aggregate, Aggregate')
    /\ session' = [session EXCEPT !.phase = "closed", !.served = @ + 1]
    /\ UNCHANGED apart

ServeJoin == \E user \in StoreUsers : InFlight /\ join_game(user) /\ Save

ServeStart ==
    \E user_id \in Users, order \in ShuffleOutcomes(Len(players)) :
        InFlight /\ start_game(user_id, order) /\ Save

ServeRoll ==
    \E player_id \in PlayerIds, die1 \in DieFaces, die2 \in DieFaces :
        InFlight /\ roll_dice(player_id, die1, die2) /\ Save

ServeBuild ==
    \E player_id \in PlayerIds, building_type \in BuildingType, position_id \in PositionIds :
        InFlight /\ build(player_id, building_type, position_id) /\ Save

ServeBuyCard == \E player_id \in PlayerIds : InFlight /\ buy_development_card(player_id) /\ Save

ServeEndTurn == \E player_id \in PlayerIds : InFlight /\ end_turn(player_id) /\ Save

StoreNext ==
    \/ Reload \/ Park \/ Resume
    \/ ServeJoin \/ ServeStart \/ ServeRoll \/ ServeBuild \/ ServeBuyCard \/ ServeEndTurn

StoreSpec == StoreInit /\ [][StoreNext]_vars

(***************************************************************************)
(* The turns: an ACTIVE game of a full lobby of three or four players as   *)
(* start_game leaves it, in which the host has then built a settlement on  *)
(* vertex 0 (so that a roll distributes), rolled on, ended and started     *)
(* again until MaxTurnCalls more calls are logged.                         *)
(***************************************************************************)
TurnInit ==
    \E n \in MaxPlayersChoices, deck \in DeckShuffles : \E order \in ShuffleOutcomes(n) :
        LET joined == [k \in 1..n |-> Player(k, k, AVAILABLE_COLORS[k], k - 1, k = 1)]
            started == AssignTurnOrder(joined, order)
            placed == PlaceBuilding(generate_board, PlayerId(1), BOHIO, 0)
            host == [Deduct(Endowed(started[1], Kit), BUILDING_COSTS[BOHIO])
                        EXCEPT !.victory_points = placed.points]
        IN  /\ max_players = n
            /\ status = ACTIVE
            /\ current_turn = 0
            /\ winner_id = 0
            /\ players = [started EXCEPT ![1] = host]
            /\ board = placed.board
            /\ development_deck = deck
            /\ last_dice_roll = <<>>
            /\ game_log = << [type |-> "game_started",
                              turn_order |-> TurnOrderUserIds(started)],
                             [type |-> "build", player_id |-> PlayerId(1),
                              building |-> BOHIO, position |-> 0] >>
            /\ result = Returned("build", PlayerId(1), BOHIO, 0, TRUE, <<>>)
            /\ InMemory

TurnOpen == Len(game_log) < 2 + MaxTurnCalls

TurnStart ==
    \E user_id \in Users, order \in ShuffleOutcomes(Len(players)) :
        /\ TurnOpen
        /\ CountLog("game_started") < MaxStarts
        /\ start_game(user_id, order)
        /\ UNCHANGED <<stored, session, apart>>

TurnRoll ==
    \E player_id \in PlayerIds, die1 \in DieFaces, die2 \in DieFaces :
        /\ TurnOpen
        /\ roll_dice(player_id, die1, die2)
        /\ UNCHANGED <<stored, session, apart>>

TurnEnd ==
    \E player_id \in PlayerIds :
        /\ TurnOpen
        /\ end_turn(player_id)
        /\ UNCHANGED <<stored, session, apart>>

TurnNext == TurnStart \/ TurnRoll \/ TurnEnd

TurnSpec == TurnInit /\ [][TurnNext]_vars

(***************************************************************************)
(* Properties.                                                             *)
(***************************************************************************)
\* the step is a call of op that returned success
Succeeded(op) == result'.op = op /\ result'.ok

\* the index in game.players of the caller of the step
Caller == CHOOSE i \in DOMAIN players : players[i].id = result'.who

Resources(p) == [r \in ResourceType |-> p[r]]

CostOf(costs, r) == IF r \in DOMAIN costs THEN costs[r] ELSE 0

HasVertex(b, position_id) == \E v \in DOMAIN b.vertices : b.vertices[v].id = position_id
HasEdge(b, position_id) == \E e \in DOMAIN b.edges : b.edges[e].id = position_id
VertexAt(b, position_id) ==
    b.vertices[CHOOSE v \in DOMAIN b.vertices : b.vertices[v].id = position_id]
EdgeAt(b, position_id) ==
    b.edges[CHOOSE e \in DOMAIN b.edges : b.edges[e].id = position_id]

\* C1: the status only moves forward: an ACTIVE game never returns to WAITING
\* and no step changes the status of a FINISHED game.
C1_StatusOnlyMovesForward ==
    [][ /\ status = WAITING => status' \in {WAITING, ACTIVE}
        /\ status = ACTIVE => status' \in {ACTIVE, FINISHED}
        /\ status = FINISHED => status' = FINISHED ]_vars

\* C2: a call that returns a failure (None or False) leaves the whole game
\* state unchanged.
C2_FailureLeavesGameUnchanged == [][ ~result'.ok => UNCHANGED game ]_vars

\* a build has failed in an ACTIVE game after other calls were logged
C2_Witness ==
    /\ result.op = "build" /\ ~result.ok
    /\ status = ACTIVE
    /\ Len(game_log) >= 2

\* C3: a build call that places nothing (the board is the same after it)
\* leaves the five resource counters of the acting player unchanged.
C3_NothingPlacedNothingDeducted ==
    [][ (Succeeded("build") /\ board' = board)
            => Resources(players'[Caller]) = Resources(players[Caller]) ]_vars

\* the placement rule of a build is not met on board b
PlacementRuleUnmet(b, building_type, position_id) ==
    \/ building_type = CAMINO
         /\ (~HasEdge(b, position_id) \/ EdgeAt(b, position_id).has_road)
    \/ building_type = BOHIO
         /\ (~HasVertex(b, position_id) \/ VertexAt(b, position_id).building # "none")
    \/ building_type = TEMPLO /\ ~HasVertex(b, position_id)

\* C4: build returns failure and appends no build entry to the game log
\* whenever the placement rule is not met (road on an edge with a road,
\* settlement on a vertex with a building, position id of no edge / vertex).
C4_UnmetPlacementFails ==
    [][ /\ Succeeded("build")
            => ~PlacementRuleUnmet(board, result'.kind, result'.pos)
        /\ \A k \in DOMAIN game_log' \ DOMAIN game_log :
              game_log'[k].type = "build"
                  => ~PlacementRuleUnmet(board, game_log'[k].building,
                                         game_log'[k].position) ]_vars

\* vertex position_id of board b holds a settlement owned by player_id
OwnSettlement(b, position_id, player_id) ==
    /\ HasVertex(b, position_id)
    /\ VertexAt(b, position_id).building = BOHIO
    /\ VertexAt(b, position_id).player_id = player_id

\* C5: build(temple, V) by P succeeds only if V holds a settlement owned by
\* P; otherwise the vertices are unchanged and P gains no victory point.
C5_TempleOnlyOnOwnSettlement ==
    [][ (result'.op = "build" /\ result'.kind = TEMPLO /\ result'.ok)
            => /\ OwnSettlement(board, result'.pos, result'.who)
               /\ ~OwnSettlement(board, result'.pos, result'.who)
                     => /\ board'.vertices = board.vertices
                        /\ players'[Caller].victory_points
                              = players[Caller].victory_points ]_vars

\* C6: every resource counter of every player is a non-negative integer.
C6_ResourcesNonNegative ==
    \A i \in DOMAIN players : \A r \in ResourceType : players[i][r] \in Nat

\* a successful build has spent the builder's last stone
C6_Witness ==
    /\ result.op = "build" /\ result.ok
    /\ \E i \in DOMAIN players : players[i].id = result.who /\ players[i].stone = 0

\* the target of a build is marked on board b as owned by player_id
MarkedAsOwned(b, building_type, position_id, player_id) ==
    IF building_type = CAMINO
    THEN /\ HasEdge(b, position_id)
         /\ EdgeAt(b, position_id).has_road
         /\ EdgeAt(b, position_id).player_id = player_id
    ELSE /\ HasVertex(b, position_id)
         /\ VertexAt(b, position_id).building = building_type
         /\ VertexAt(b, position_id).player_id = player_id

\* C7: a successful build deducts exactly the cost of the building kind from
\* the acting player and nothing from any other player, marks the targeted
\* edge or vertex as owned by the acting player, and adds one building
\* victory point for a settlement or a temple and none for a road.
C7_SuccessfulBuildEffect ==
    [][ Succeeded("build") =>
          LET costs == BUILDING_COSTS[result'.kind]
          IN  /\ \A r \in ResourceType :
                    players'[Caller][r] = players[Caller][r] - CostOf(costs, r)
              /\ \A j \in DOMAIN players \ {Caller} :
                    Resources(players'[j]) = Resources(players[j])
              /\ MarkedAsOwned(board', result'.kind, result'.pos, result'.who)
              /\ players'[Caller].victory_points =
                    players[Caller].victory_points
                        + (IF result'.kind = CAMINO THEN 0 ELSE 1) ]_vars

\* the players whose turn_order equals current_turn mod player_count
PlayersOnTurn(ps, turn) == {i \in DOMAIN ps : ps[i].turn_order = turn % Len(ps)}

\* C8: rollDice and endTurn succeed only in an ACTIVE game and for the player
\* whose turn_order equals current_turn mod player_count, and in every ACTIVE
\* state exactly one player is that player.
C8_OnlyCurrentPlayerRollsAndEnds ==
    [][ /\ (Succeeded("roll_dice") \/ Succeeded("end_turn"))
            => /\ status = ACTIVE
               /\ \E i \in PlayersOnTurn(players, current_turn) :
                     players[i].id = result'.who
        /\ status' = ACTIVE
            => Cardinality(PlayersOnTurn(players', current_turn')) = 1 ]_vars

\* the player on turn has ended the first turn of an ACTIVE game
C8_Witness ==
    /\ result.op = "end_turn" /\ result.ok
    /\ status = ACTIVE
    /\ current_turn >= 1

\* the first player of game.players whose total is at least 10 (0 if none)
FirstWinner(ps) ==
    FirstIndex({i \in DOMAIN ps : TotalPoints(ps[i]) >= VICTORY_POINTS_TO_WIN})

\* C9: the winner is null until a victory evaluation (in a build or a card
\* purchase) first finds a player whose total is at least 10, is set to that
\* player then, and never changes afterwards.
C9_WinnerSetOnce ==
    [][ /\ winner_id # 0 => winner_id' = winner_id
        /\ (winner_id = 0 /\ winner_id' # 0)
              => /\ Succeeded("build") \/ Succeeded("buy_development_card")
                 /\ FirstWinner(players') # 0
                 /\ winner_id' = players'[FirstWinner(players')].user_id ]_vars

\* C10: after every successful build and card purchase, if some player's
\* total is at least 10 the game is FINISHED with the first such player as
\* winner and one game_won entry appended after the call's entry, otherwise
\* status and winner are unchanged; and a player with total 9 who draws a
\* victory-point card finishes the game as its winner.
C10_VictoryEvaluation ==
    [][ (Succeeded("build") \/ Succeeded("buy_development_card")) =>
          /\ IF FirstWinner(players') # 0
             THEN /\ status' = FINISHED
                  /\ winner_id' = players'[FirstWinner(players')].user_id
                  /\ Len(game_log') = Len(game_log) + 2
                  /\ SubSeq(game_log', 1, Len(game_log)) = game_log
                  /\ game_log'[Len(game_log) + 1].type = result'.op
                  /\ game_log'[Len(game_log) + 2].type = "game_won"
             ELSE /\ status' = status
                  /\ winner_id' = winner_id
          /\ ( /\ Succeeded("buy_development_card")
               /\ TotalPoints(players[Caller]) = 9
               /\ result'.value = AVANCE_ANCESTRAL )
                => /\ status' = FINISHED
                   /\ winner_id' = players[Caller].user_id ]_vars

\* C11: the status changes to FINISHED, and the winner is set, only by a
\* successful build or buy_development_card; no roll_dice, end_turn,
\* join_game or start_game call sets the status to FINISHED or sets the winner.
C11_OnlyBuildAndBuyFinish ==
    [][ ((status # FINISHED /\ status' = FINISHED) \/ winner_id' # winner_id)
            => Succeeded("build") \/ Succeeded("buy_development_card") ]_vars

\* a card purchase has finished the game and set its winner
C11_Witness ==
    /\ result.op = "buy_development_card" /\ result.ok
    /\ status = FINISHED
    /\ winner_id # 0

\* C12: current_turn never decreases: it is 0 when the game becomes ACTIVE
\* and afterwards changes only by +1 on a successful end_turn.
C12_TurnCounterMonotonic ==
    [][ /\ current_turn' >= current_turn
        /\ (status # ACTIVE /\ status' = ACTIVE) => current_turn' = 0
        /\ (status = ACTIVE /\ current_turn' # current_turn)
              => Succeeded("end_turn") /\ current_turn' = current_turn + 1 ]_vars

\* the players' turn_order values are exactly 0..n-1, one each
IsPermutation(ps) ==
    /\ {ps[i].turn_order : i \in DOMAIN ps} = 0..(Len(ps) - 1)
    /\ \A i, j \in DOMAIN ps : ps[i].turn_order = ps[j].turn_order => i = j

\* C13: start_game succeeds only for the host of a game with at least 3
\* players; on success the status is ACTIVE, current_turn is 0, the same
\* players (none added, none dropped, nothing else of them changed) have
\* turn_order values that are a permutation of 0..n-1, and one game_started
\* entry is appended whose list holds the user ids in that order.
C13_StartGameEffect ==
    [][ Succeeded("start_game") =>
          /\ \E i \in DOMAIN players :
                 players[i].is_host /\ players[i].user_id = result'.who
          /\ Len(players) >= 3
          /\ status' = ACTIVE
          /\ current_turn' = 0
          /\ Len(players') = Len(players)
          /\ \A i \in DOMAIN players :
                 players'[i] = [players[i] EXCEPT !.turn_order = players'[i].turn_order]
          /\ IsPermutation(players')
          /\ Len(game_log') = Len(game_log) + 1
          /\ SubSeq(game_log', 1, Len(game_log)) = game_log
          /\ game_log'[Len(game_log')].type = "game_started"
          /\ Len(game_log'[Len(game_log')].turn_order) = Len(players)
          /\ \A i \in DOMAIN players' :
                 game_log'[Len(game_log')].turn_order[players'[i].turn_order + 1]
                     = players'[i].user_id ]_vars

\* the host has started a game of 3 players and the shuffle has moved the
\* host off the first place
C13_Witness ==
    /\ result.op = "start_game" /\ result.ok
    /\ status = ACTIVE /\ current_turn = 0
    /\ Len(players) = 3
    /\ players[1].turn_order # 0

\* C14: the turn order is randomized only at the WAITING -> ACTIVE start:
\* once the game has left WAITING no player's turn_order changes.
C14_TurnOrderFixedOnceActive ==
    [][ status # WAITING
            => /\ Len(players') = Len(players)
               /\ \A i \in DOMAIN players :
                      players'[i].turn_order = players[i].turn_order ]_vars

\* user is the user of one of the players ps
IsMember(ps, user) == \E i \in DOMAIN ps : ps[i].user_id = user

\* C15: join_game called by a user who is already a player of the game
\* returns that user's existing Player and creates no new player: the
\* players, their colours and turn orders are the same after the call.
C15_MemberJoinReturnsExisting ==
    [][ (result'.op = "join_game" /\ IsMember(players, result'.who))
            => /\ result'.ok
               /\ \E i \in DOMAIN players :
                      /\ players[i].user_id = result'.who
                      /\ players[i].id = result'.value
               /\ players' = players ]_vars

\* C16: join_game by a user who is not yet in the game succeeds only in a
\* WAITING game with fewer than max_players players; in every state the
\* number of players is at most max_players and at most the number of
\* palette colours, and no player is added once the game has left WAITING.
C16_JoinRespectsCapacity ==
    /\ [](Len(players) <= max_players /\ Len(players) <= Len(AVAILABLE_COLORS))
    /\ [][ /\ (Succeeded("join_game") /\ ~IsMember(players, result'.who))
                => status = WAITING /\ Len(players) < max_players
           /\ status # WAITING => Len(players') = Len(players) ]_vars

\* a user who is not in the game has been refused by a WAITING game that is
\* full
C16_Witness ==
    /\ result.op = "join_game" /\ ~result.ok
    /\ status = WAITING
    /\ Len(players) = max_players
    /\ ~IsMember(players, result.who)

\* the first colour of the palette that no player of ps has
FirstUnusedColor(ps) ==
    AVAILABLE_COLORS[FirstIndex({k \in DOMAIN AVAILABLE_COLORS :
                         \A i \in DOMAIN ps : ps[i].color # AVAILABLE_COLORS[k]})]

\* C17: the players have pairwise distinct colours; while WAITING their
\* turn_order values are exactly 0..n-1 with the host at 0; a successful
\* join of a new player appends a player with the first palette colour not
\* yet used and turn_order n, the player count before the join.
C17_ColoursAndLobbyOrder ==
    /\ [](/\ \A i, j \in DOMAIN players :
                 players[i].color = players[j].color => i = j
          /\ (status = WAITING)
                => (/\ IsPermutation(players)
                    /\ \A i \in DOMAIN players :
                           (players[i].is_host => players[i].turn_order = 0)))
    /\ [][ (Succeeded("join_game") /\ ~IsMember(players, result'.who))
                => /\ Len(players') = Len(players) + 1
                   /\ SubSeq(players', 1, Len(players)) = players
                   /\ players'[Len(players')].user_id = result'.who
                   /\ players'[Len(players')].color = FirstUnusedColor(players)
                   /\ players'[Len(players')].turn_order = Len(players) ]_vars

\* a WAITING game of four players holds the four colours of the palette
C17_Witness ==
    /\ result.op = "join_game" /\ result.ok
    /\ status = WAITING
    /\ Len(players) = 4
    /\ players[4].color = AVAILABLE_COLORS[4]
    /\ players[4].turn_order = 3

\* C18: buy_development_card succeeds only in an ACTIVE game, for a player
\* holding at least 1 gold, 1 cotton and 1 maize, with a non-empty deck; on
\* success exactly that cost is deducted from that player only, the top card
\* of the deck (its last element) leaves the deck, is appended to that
\* player's hand and is returned, and the player's victory_cards rises by 1
\* if and only if the card is a victory-point card.
C18_BuyDevelopmentCardEffect ==
    [][ Succeeded("buy_development_card") =>
          /\ status = ACTIVE
          /\ \E i \in DOMAIN players : players[i].id = result'.who
          /\ players[Caller].gold >= 1
          /\ players[Caller].cotton >= 1
          /\ players[Caller].maize >= 1
          /\ development_deck # <<>>
          /\ \A r \in ResourceType :
                 players'[Caller][r]
                     = players[Caller][r] - (IF r \in {"gold", "cotton", "maize"} THEN 1 ELSE 0)
          /\ Len(players') = Len(players)
          /\ \A j \in DOMAIN players \ {Caller} : players'[j] = players[j]
          /\ result'.value = development_deck[Len(development_deck)]
          /\ development_deck' = SubSeq(development_deck, 1, Len(development_deck) - 1)
          /\ players'[Caller].development_cards
                 = Append(players[Caller].development_cards, result'.value)
          /\ players'[Caller].victory_cards
                 = players[Caller].victory_cards
                     + (IF result'.value = AVANCE_ANCESTRAL THEN 1 ELSE 0) ]_vars

\* a player who affords a card has been refused it in an ACTIVE game whose
\* deck the earlier purchases have emptied
C18_Witness ==
    /\ result.op = "buy_development_card" /\ ~result.ok
    /\ status = ACTIVE
    /\ development_deck = <<>>
    /\ CountLog("buy_development_card") >= 2
    /\ \E i \in DOMAIN players :
           /\ players[i].id = result.who
           /\ CanAfford(players[i], DEVELOPMENT_CARD_COST)
    /\ \E i \in DOMAIN players :
           /\ players[i].development_cards # <<>>
           /\ players[i].development_cards[Len(players[i].development_cards)]
                  = AVANCE_ANCESTRAL

\* the cards of kind card in the deck and in all the hands
CardsInPlay(card) ==
    CountCard(development_deck, card)
        + Cardinality({ik \in (DOMAIN players) \X (1..Len(DEVELOPMENT_CARDS)) :
              /\ ik[2] \in DOMAIN players[ik[1]].development_cards
              /\ players[ik[1]].development_cards[ik[2]] = card})

RollCredit(b, p, resource, total) ==
    Cardinality({h \in DOMAIN b.hexes :
        /\ b.hexes[h].number_token = total
        /\ ~b.hexes[h].has_conquistador
        /\ get_terrain_resource(b.hexes[h].terrain) = resource})
    * ( Cardinality({v \in DOMAIN b.vertices :
            b.vertices[v].building = BOHIO /\ b.vertices[v].player_id = p.id})
        + 2 * Cardinality({v \in DOMAIN b.vertices :
            b.vertices[v].building = TEMPLO /\ b.vertices[v].player_id = p.id}) )

\* C20: a successful roll_dice with a sum other than 7 credits every player,
\* for every hex with that token and without the conquistador, the hex's
\* resource, 1 per settlement and 2 per temple the player owns (every built
\* vertex counts as adjacent); the contributions of several such hexes add
\* up, and nothing else of any player changes.
C20_RollDistributes ==
    [][ (Succeeded("roll_dice") /\ result'.value[1] + result'.value[2] # 7) =>
          /\ Len(players') = Len(players)
          /\ \A i \in DOMAIN players :
                 players'[i] =
                     [f \in DOMAIN players[i] |->
                         IF f \in ResourceType
                         THEN players[i][f]
                                + RollCredit(board, players[i], f,
                                             result'.value[1] + result'.value[2])
                         ELSE players[i][f]] ]_vars

\* a roll of 6 has paid the owner of a temple for both hexes with the token 6
C20_Witness ==
    /\ result.op = "roll_dice" /\ result.ok
    /\ result.value = <<3, 3>>
    /\ \E v \in DOMAIN board.vertices, i \in DOMAIN players :
           /\ board.vertices[v].building = TEMPLO
           /\ board.vertices[v].player_id = players[i].id
           /\ players[i].gold >= 2
           /\ players[i].maize >= 2

C22_EndTurnEffect ==
    [][ Succeeded("end_turn") =>
          /\ current_turn' = current_turn + 1
          /\ last_dice_roll' = <<>>
          /\ Len(game_log') = Len(game_log) + 1
          /\ SubSeq(game_log', 1, Len(game_log)) = game_log
          /\ game_log'[Len(game_log')].type = "end_turn"
          /\ UNCHANGED <<max_players, status, winner_id, players, board,
                         development_deck>> ]_vars

\* the player on turn has rolled and then ended the turn
C22_Witness ==
    /\ result.op = "end_turn" /\ result.ok
    /\ last_dice_roll = <<>>
    /\ Len(game_log) >= 2
    /\ game_log[Len(game_log) - 1].type = "dice_roll"
    /\ game_log[Len(game_log) - 1].player_id = result.who
    /\ game_log[Len(game_log)].type = "end_turn"

\* C26: the game log is append-only, and every successful start, roll,
\* build, card purchase and end of turn, and every join that adds a player,
\* appends an entry for that event; the step that finishes the game appends
\* a game_won entry as well.
C26_LogAppendOnly ==
    [][ /\ Len(game_log') >= Len(game_log)
        /\ SubSeq(game_log', 1, Len(game_log)) = game_log
        /\ (Succeeded("join_game") /\ Len(players') > Len(players))
              => Len(game_log') > Len(game_log)
        /\ \A op \in {"start_game", "roll_dice", "build", "buy_development_card",
                       "end_turn"} :
              Succeeded(op)
                  => /\ Len(game_log') > Len(game_log)
                     /\ game_log'[Len(game_log) + 1].type
                            = (CASE op = "start_game" -> "game_started"
                                 [] op = "roll_dice" -> "dice_roll"
                                 [] OTHER -> op)
        /\ (status # FINISHED /\ status' = FINISHED)
              => game_log'[Len(game_log')].type = "game_won" ]_vars

CountTerrain(b, terrain) ==
    Cardinality({i \in DOMAIN b.hexes : b.hexes[i].terrain = terrain})

CountToken(b, n) ==
    Cardinality({i \in DOMAIN b.hexes : b.hexes[i].number_token = n})

CountPort(b, port_type) ==
    Cardinality({i \in DOMAIN b.ports : b.ports[i].port_type = port_type})

C29_GeneratedBoardLayout ==
    LET holders == {i \in DOMAIN board.hexes : board.hexes[i].has_conquistador}
    IN  /\ Len(board.hexes) = 19
        /\ \A i \in DOMAIN board.hexes :
              /\ board.hexes[i].id = i - 1
              /\ <<board.hexes[i].q, board.hexes[i].r>> = HEX_POSITIONS[i]
        /\ Cardinality({HEX_POSITIONS[i] : i \in DOMAIN HEX_POSITIONS}) = 19
        /\ CountTerrain(board, "selva") = 4
        /\ CountTerrain(board, "canteras") = 4
        /\ CountTerrain(board, "valles") = 4
        /\ CountTerrain(board, "tierras_altas") = 3
        /\ CountTerrain(board, "sierra") = 3
        /\ CountTerrain(board, "centro_ceremonial") = 1
        /\ Cardinality(holders) = 1
        /\ \A i \in holders :
              /\ board.hexes[i].terrain = "centro_ceremonial"
              /\ board.conquistador_position = board.hexes[i].id
              /\ board.hexes[i].number_token = 0
        /\ \A i \in DOMAIN board.hexes :
              i \notin holders => board.hexes[i].number_token \in (2..12) \ {7}
        /\ \A n \in (2..12) \ {7} :
              CountToken(board, n) = (IF n \in {2, 12} THEN 1 ELSE 2)
        /\ Len(board.ports) = 9
        /\ CountPort(board, "general") = 4
        /\ \A r \in ResourceType : CountPort(board, r) = 1

\* create_game has returned a game whose board has the ceremonial center
\* away from the first hex position, so that tokens were dealt on both sides
\* of it, from shuffles of the tokens and of the port types that moved them
C29_Witness ==
    /\ result.op = "create_game"
    /\ board.conquistador_position \in 1..17
    /\ board.hexes[1].number_token # NUMBER_TOKENS[1]
    /\ board.hexes[Len(board.hexes)].number_token # 0
    /\ \E i \in DOMAIN board.ports : board.ports[i].port_type # PORT_TYPES[i]

(***************************************************************************)
(* C30: a generated board has 54 vertices and 72 edges, every vertex and   *)
(* every edge that hexes share appearing once, with ids 0..53 and 0..71.   *)
(***************************************************************************)
C30_VertexAndEdgeCounts ==
    /\ Len(board.vertices) = 54
    /\ Len(board.edges) = 72
    /\ \A i \in DOMAIN board.vertices : board.vertices[i].id = i - 1
    /\ \A i \in DOMAIN board.edges : board.edges[i].id = i - 1
    /\ \A i, j \in DOMAIN board.vertices :
          (board.vertices[i].q = board.vertices[j].q
              /\ board.vertices[i].r = board.vertices[j].r) => i = j
    /\ \A i, j \in DOMAIN board.edges :
          (board.edges[i].q = board.edges[j].q /\ board.edges[i].r = board.edges[j].r
              /\ board.edges[i].direction = board.edges[j].direction) => i = j

(***************************************************************************)
(* C28: after creation no action changes a hex (terrain, number token,     *)
(* coordinates), the sets of hexes, vertices, edges and ports, or the      *)
(* holder of the conquistador, of which there is exactly one; the only     *)
(* parts of the board that change are a vertex's building and owner and an *)
(* edge's road flag and owner, and only a successful build changes them.   *)
(***************************************************************************)
VertexPlace(v) == [f \in (DOMAIN v) \ {"building", "player_id"} |-> v[f]]

EdgePlace(e) == [f \in (DOMAIN e) \ {"has_road", "player_id"} |-> e[f]]

Served == InFlight /\ session'.phase = "closed"

C23_ConcurrentPurchasesSerialize ==
    [][ (/\ Served
         /\ Succeeded("build") \/ Succeeded("buy_development_card")
         /\ \/ session.phase = "loaded"
            \/ result.ok /\ result.op \in {"build", "buy_development_card"})
            => LET i == PlayerIndex(stored.players, result'.who)
                   costs == IF result'.op = "build" THEN BUILDING_COSTS[result'.kind]
                            ELSE DEVELOPMENT_CARD_COST
               IN  /\ i # 0
                   /\ \A r \in ResourceType :
                         /\ stored.players[i][r] >= CostOf(costs, r)
                         /\ stored'.players[i][r] = stored.players[i][r] - CostOf(costs, r)
      ]_vars

(***************************************************************************)
(* C24: two users joining the same WAITING game concurrently never leave   *)
(* it with more than max_players players, with two players of one colour   *)
(* or with two players of one turn_order.                                  *)
(***************************************************************************)
Distinct(ps, field) ==
    \A i, j \in DOMAIN ps : ps[i][field] = ps[j][field] => i = j

C24_ConcurrentJoinsRespectLobby ==
    (stored.status = WAITING /\ Distinct(stored.players, "user_id"))
        => /\ Len(stored.players) <= stored.max_players
           /\ Distinct(stored.players, "color")
           /\ Distinct(stored.players, "turn_order")

(***************************************************************************)
(* C25: every mutation a successful action made is visible to the next     *)
(* call, which loads the game from the store: the placed road or building, *)
(* the card taken from the deck and the appended log entry as much as the  *)
(* scalar columns.  After a successful request served alone, the stored    *)
(* game is the game the request left.                                      *)
(***************************************************************************)
C25_ReadYourWrites ==
    [][ (Served /\ session.phase = "loaded" /\ session.parked = <<>> /\ result'.ok)
            => stored' = Aggregate' ]_vars

(***************************************************************************)
(* C31: last_dice_roll is empty in every state in which no roll_dice has   *)
(* succeeded since the game started or since the most recent successful    *)
(* end_turn; otherwise it is the pair (die1, die2) of the latest           *)
(* successful roll, each die in 1..6.                                      *)
(***************************************************************************)
\* the position in the log of the last entry of one of the types, 0 if none
LastLogged(types) ==
    LET S == {i \in DOMAIN game_log : game_log[i].type \in types}
    IN  IF S = {} THEN 0 ELSE CHOOSE i \in S : \A j \in S : j <= i

C31_LastDiceRollWindow ==
    LET opened == LastLogged({"game_started", "end_turn"})
        rolled == LastLogged({"dice_roll"})
    IN  IF rolled > opened
        THEN /\ last_dice_roll = game_log[rolled].dice
             /\ Len(last_dice_roll) = 2
             /\ \A k \in 1..2 : last_dice_roll[k] \in 1..6
        ELSE last_dice_roll = <<>>

(***************************************************************************)
(* C34: in an ACTIVE game of n players successive successful end_turn      *)
(* calls pass the turn through the players in increasing turn_order,       *)
(* cyclically: after a successful end_turn by the player of turn_order k   *)
(* the actor is the player of turn_order (k + 1) mod n, so a player who    *)
(* has ended their turn does not roll or end a turn again before each of   *)
(* the other n - 1 players has ended theirs.                               *)
(***************************************************************************)
EndedBetween(i, j) ==
    {game_log[k].player_id : k \in {k \in (i + 1)..(j - 1) : game_log[k].type = "end_turn"}}

C34_TurnsPassCyclically ==
    /\ [](\A i, j \in DOMAIN game_log :
             (/\ i < j
              /\ game_log[i].type = "end_turn"
              /\ game_log[j].type \in {"dice_roll", "end_turn"}
              /\ game_log[j].player_id = game_log[i].player_id)
                 => \A p \in DOMAIN players :
                       players[p].id # game_log[i].player_id
                           => players[p].id \in EndedBetween(i, j))
    /\ [][ Succeeded("end_turn")
              => LET n == Len(players)
                     k == players[Caller].turn_order
                 IN  /\ players' = players
                     /\ \E p \in DOMAIN players :
                           /\ players[p].turn_order = (k + 1) % n
                           /\ IsTurnOf(players', current_turn', players[p].id) ]_vars

(***************************************************************************)
(* C37: within one turn (from the start of the game or a successful        *)
(* end_turn to the next successful end_turn) roll_dice succeeds at most    *)
(* once, so that resources are distributed at most once per turn.          *)
(***************************************************************************)
C37_OneRollPerTurn ==
    [][ Succeeded("roll_dice")
            => LastLogged({"dice_roll"}) <= LastLogged({"game_started", "end_turn"}) ]_vars

(***************************************************************************)
(* C35: in every reachable state each player's building victory points    *)
(* equal the number of settlements the player owns on the board plus twice *)
(* the number of temples the player owns.  The Player rows of the games    *)
(* the engine is run on start with points of earlier play, so the equality *)
(* is stated of what every step adds to both sides.                        *)
(***************************************************************************)
OwnedPoints(b, player_id) ==
    Cardinality({v \in DOMAIN b.vertices :
                    b.vertices[v].player_id = player_id /\ b.vertices[v].building = BOHIO})
    + 2 * Cardinality({v \in DOMAIN b.vertices :
                    b.vertices[v].player_id = player_id /\ b.vertices[v].building = TEMPLO})

C35_PointsMatchBuildings ==
    [][ /\ Len(players') >= Len(players)
        /\ \A p \in DOMAIN players :
              /\ players'[p].id = players[p].id
              /\ players'[p].victory_points - players[p].victory_points
                    = OwnedPoints(board', players[p].id) - OwnedPoints(board, players[p].id)
        /\ \A p \in (DOMAIN players') \ (DOMAIN players) :
              players'[p].victory_points = OwnedPoints(board', players'[p].id) ]_vars

(***************************************************************************)
(* C36: in every reachable state, if the status is WAITING or ACTIVE the   *)
(* winner is null and every player's total (building points + victory      *)
(* cards + 2 per achievement flag) is below 10; if the status is FINISHED  *)
(* the winner is a player of the game whose total is at least 10 and who   *)
(* made the build or buy-card call that finished the game.                 *)
(***************************************************************************)
C36_StatusMatchesPoints ==
    IF status = FINISHED
    THEN LET won == LastLogged({"game_won"})
         IN  /\ won > 1
             /\ game_log[won - 1].type \in {"build", "buy_development_card"}
             /\ \E p \in DOMAIN players :
                   /\ players[p].user_id = winner_id
                   /\ TotalPoints(players[p]) >= VICTORY_POINTS_TO_WIN
                   /\ game_log[won - 1].player_id = players[p].id
    ELSE /\ winner_id = 0
         /\ \A p \in DOMAIN players : TotalPoints(players[p]) < VICTORY_POINTS_TO_WIN

\* the seed of the last call, when it was generate_board with a seed
SeededWith(r) == IF r.op = "generate_board" /\ r.value # <<>> THEN r.value[1] ELSE None

SameLayout(b1, b2) ==
    /\ Len(b1.hexes) = Len(b2.hexes)
    /\ \A i \in DOMAIN b1.hexes :
           /\ b1.hexes[i].terrain = b2.hexes[i].terrain
           /\ b1.hexes[i].number_token = b2.hexes[i].number_token
    /\ b1.conquistador_position = b2.conquistador_position
    /\ Len(b1.ports) = Len(b2.ports)
    /\ \A i \in DOMAIN b1.ports : b1.ports[i].port_type = b2.ports[i].port_type

\* C33: when generate_board is called with a seed right after a call with the
\* same seed, the board it returns has the terrain and the number token of
\* the earlier board on every hex, its conquistador position, and its port
\* kind on every port.
C33_SameSeedSameBoard ==
    [][(SeededWith(result') # None /\ SeededWith(result') = SeededWith(result))
          => SameLayout(board, board')]_vars

\* C33 witness: generate_board was called with seed 0 and left the generator
\* where seed 0 leads, with the board of seed 0, which is not the layout the
\* lists have before shuffling.
C33_Witness ==
    /\ SeededWith(result) = 0
    /\ random_state = generate_board_with_seed(0, 0).state
    /\ \E i \in DOMAIN board.hexes : board.hexes[i].terrain # TERRAIN_DISTRIBUTION[i]

\* C32: the connection broadcast_to_game is sending to has authenticated: its
\* task has set user_id from a valid token.
C32_RecipientsAuthenticated ==
    \A w \in Sockets :
        manager.task[w].pc = "broadcast" =>
            manager.task[manager.task[w].iter.current].user_id # 0

\* C38: no call of broadcast_to_game has raised.
C38_BroadcastNeverRaises == \A w \in Sockets : manager.task[w].raised = ""

\* C39: play_turn ends: the loop reaches the return after a successful
\* end_turn, or a break.
C39_PlayTurnTerminates == <>(client.pc \in {"returned", "break"})

====
